---- MODULE Spec2Model ----
(***************************************************************************)
(* ShareFlow backend (backend/src/main.rs): the coordinator of one host,   *)
(* its TCP listener and per-connection handshake tasks, the periodic       *)
(* cleanup task, the connect tasks of outgoing requests and the reader /   *)
(* writer tasks of established sessions.  Remote peers, the UI and the     *)
(* capture hook are the environment: they supply the inputs of the         *)
(* handlers.                                                                *)
(***************************************************************************)
EXTENDS Integers, Sequences, FiniteSets, TLC

\* ------------------------------------------------------------------ bounds
\* Inbound TCP connections the listener accepts in one run.
MaxInbound == 2
\* Connect tasks (requestConnection with a known target) spawned in one run.
MaxOutbound == 1
\* Clock ticks in one run, and the seconds one tick stands for.
MaxTicks == 2
TickSecs == 16
\* Readings of the clock per second: an Instant is finer than the whole
\* seconds Duration::as_secs() reports.
Resolution == 2
\* Messages waiting in one session's outbound channel, and in the channel
\* from a capture hook to the main loop.
MaxQueue == 1
\* Messages the broadcast channel of the control bus retains (100 in
\* websocket.rs:66), and messages published on it in one run.
BusCapacity == 2
MaxPublished == 5
\* InputCapture instances (startCapture while not capturing) in one run.
MaxCaptures == 2
\* Messages written to one stream in a run of the codec.
MaxFrames == 2
MaxDatagrams == 3
MaxAttempts == 2

\* --------------------------------------------------------------- constants
\* main.rs:196 / main.rs:276: pending requests older than this are expired.
PendingTimeoutSecs == 30
\* main.rs:381: peer table entries older than this are pruned.
StaleSecs == 10
\* main.rs:79 / main.rs:499: the session port, part of an initiator's key.
SessionPort == 8080
\* main.rs:456: the connect task gives TcpStream::connect this long.
ConnectTimeoutSecs == 5
\* main.rs:489: the connect task waits this long for the ConnectResponse.
HandshakeTimeoutSecs == 30

\* Option<T>: None is the empty sequence, Some(x) the one-element sequence.
None == << >>
Some(x) == <<x>>
IsSome(o) == o # None
Unwrap(o) == o[1]

\* main.rs:92: the local device id.
LocalDeviceId == "device-a"
\* The peers that announce themselves on the LAN: (id, name, source ip).
Announces ==
    { [id |-> "device-b", name |-> "B", ip |-> "ip-b"],
      [id |-> "device-c", name |-> "C", ip |-> "ip-c"],
      [id |-> LocalDeviceId, name |-> "A", ip |-> "ip-a"] }
\* Source addresses of inbound TCP connections.
PeerIps == {"ip-b", "ip-c"}
\* Device ids the UI may name in a command.
UiDeviceIds == {"device-b", "device-c"}

Inbound == 1..MaxInbound
Outbound == 1..MaxOutbound
Captures == 1..MaxCaptures

VARIABLES
    now,                        \* std::time::Instant::now(), in clock units
    discovered_devices,         \* id -> [device, last_seen]
    pending_connections,        \* addr -> [stream, device, timestamp]
    latest_connection_request,  \* Option<DeviceInfo>
    outgoing_request,           \* Option<(target id, cancel sender)>
    active_connections,         \* key -> the session whose sender it holds
    is_capturing,               \* the capture flag
    should_stop,                \* the stop flag of each InputCapture
    input_rx,                   \* Option<receiver>: the InputCapture it reads
    capture_queue,              \* per InputCapture: messages sent, not yet read
    hook,                       \* per InputCapture: grab callback and its flags
    tcp_in,                     \* inbound connections and their handshake tasks
    connect_task,               \* connect tasks of outgoing requests
    session,                    \* reader / writer tasks and outbound channels
    cancelled_notified,         \* ids broadcast in ConnectionRequestCancelled
    link,                       \* one TCP stream: frames written and read
    bus,                        \* the control bus: broadcast channel, receivers
    locks,                      \* per task: the code left to run, guards held
    datagrams,                  \* two runs of the discovery handler, one batch
    ws_out                      \* what the last step broadcast on the bus

vars == << now, discovered_devices, pending_connections,
           latest_connection_request, outgoing_request, active_connections,
           is_capturing, should_stop, input_rx, capture_queue, hook,
           tcp_in, connect_task, session, cancelled_notified, link, bus, locks,
           datagrams, ws_out >>

\* What only the capture handlers and the hook callback touch.
hook_vars == << input_rx, capture_queue, hook >>

\* ----------------------------------------------------------------- helpers
\* A partial function with one more / one fewer key.
Put(f, k, v) == [x \in DOMAIN f \cup {k} |-> IF x = k THEN v ELSE f[x]]
Del(f, ks) == [x \in DOMAIN f \ ks |-> f[x]]
Empty == [x \in {} |-> x]

\* One tick in clock units, and the last instant of a run.
TickUnits == TickSecs * Resolution
Horizon == MaxTicks * TickUnits
\* The instants the ticks of a run fall on.
TickInstants == { k * TickUnits : k \in 0..MaxTicks }

\* now.duration_since(t).as_secs(): whole seconds, the rest is dropped.
ElapsedSecs(t) == (now - t) \div Resolution

\* addr.to_string() of inbound connection c: "<source ip>:<ephemeral port>".
AddrOf(c) == << tcp_in[c].ip, c >>
\* conn_key of a connect task (main.rs:499): "<target ip>:8080".
ConnKey(ip) == << ip, SessionPort >>

\* Sessions are named by the task that installed them.
InSession(c) == << "in", c >>
OutSession(a) == << "out", a >>

NoConn ==
    [pc |-> "none", ip |-> "", first |-> "", device |-> None,
     stream |-> "none", responses |-> << >>, peer_closed |-> FALSE,
     superseded |-> FALSE]
NoHook == [installed |-> FALSE, ctrl_pressed |-> FALSE, alt_pressed |-> FALSE]
NoTask ==
    [pc |-> "none", target |-> "", ip |-> "", cancel |-> "armed",
     request_sent |-> FALSE, peer_closed |-> FALSE, outcome |-> "",
     started |-> 0]

\* The peer tables discovery has built when the first command or
\* connection arrives: no peer, one peer, or both peers seen at time 0.
Seen(anns) ==
    [id \in { ann.id : ann \in anns } |->
        [device |-> CHOOSE ann \in anns : ann.id = id, last_seen |-> 0]]
InitialTables ==
    { Seen({}),
      Seen({ ann \in Announces : ann.id = "device-b" }),
      Seen({ ann \in Announces : ann.id # LocalDeviceId }) }

\* The stream before anything is written to it.
\* `enq` is every message put on the outbound channel so far, `outbox` those
\* still in it.
\* `late` is what was written and has not arrived yet; role, pc, buf, need
\* and allocs are the reader's: which session loop it is, which read_exact
\* of recv it is in, the bytes that read_exact has taken so far, the size
\* of the payload buffer, and the sizes of all buffers it allocated.
NoLink == [outbox |-> << >>, sent |-> << >>, writes |-> << >>,
           wire |-> << >>, inbox |-> << >>, enq |-> << >>, late |-> << >>,
           role |-> "acceptor", pc |-> "len", buf |-> << >>, need |-> 0,
           allocs |-> {}]

\* The receivers of the control bus: the main loop's and one UI
\* connection's forwarder.
Receivers == {"ws_broadcast_rx", "broadcast_rx"}

\* The bus before anything is sent: `sent` counts the messages published,
\* numbered from 1; each receiver has the number of the message it reads
\* next, the messages it has read, and whether its loop still runs.
\* ------------------------------------------------ the shared mutexes
\* The Arc<Mutex<..>> values the tasks share.
Mutexes ==
    { "discovered_devices", "pending_connections",
      "latest_connection_request", "outgoing_request", "active_connections",
      "is_capturing", "input_capture_handle" }

\* The tasks that lock them: the main select loop, the handshake task of an
\* accepted connection, the cleanup task, the connect task of a request, the
\* writer task of a session.
Tasks == { "coordinator", "handshake", "cleanup", "connect", "writer" }

\* What a task does next: m.lock().await, the drop of a guard, an await on
\* the TCP stream.
Lock(m) == [op |-> "lock", m |-> m]
Unlock(m) == [op |-> "unlock", m |-> m]
SendTcpOp == [op |-> "send_tcp", m |-> "stream"]
RecvTcpOp == [op |-> "recv_tcp", m |-> "stream"]

\* A statement that locks m and drops the guard at its end.
Locked(m) == << Lock(m), Unlock(m) >>

\* The handshake task: the device is looked up, older pending requests are
\* refused while the pending guard is held, the new one is stored.
HandshakeProgram(known, old) ==
    << RecvTcpOp >> \o Locked("discovered_devices") \o
    ( IF known
      THEN << Lock("pending_connections") >> \o
           ( IF old THEN << SendTcpOp >> ELSE << >> ) \o
           << Unlock("pending_connections") >> \o
           Locked("latest_connection_request")
      ELSE << SendTcpOp >> )

\* The handshake task when the first read fails: a record found under its
\* address is removed and, the pending guard still held, the latest request
\* is locked.
HandshakeErrorProgram(found) ==
    << RecvTcpOp, Lock("pending_connections") >> \o
    ( IF found THEN Locked("latest_connection_request") ELSE << >> ) \o
    << Unlock("pending_connections") >>

\* The cleanup task: expired requests are refused under the pending guard.
CleanupProgram(expired) ==
    << Lock("pending_connections") >> \o
    ( IF expired THEN << SendTcpOp >> ELSE << >> ) \o
    << Unlock("pending_connections") >>

\* The connect task of an accepted request.
ConnectProgram ==
    << SendTcpOp, RecvTcpOp >> \o Locked("outgoing_request") \o
    Locked("active_connections")

\* The writer task of a session when a send fails.
WriterProgram == << SendTcpOp >> \o Locked("active_connections")

StartCaptureProgram(capturing) ==
    << Lock("is_capturing") >> \o
    ( IF ~capturing THEN Locked("input_capture_handle") ELSE << >> ) \o
    << Unlock("is_capturing") >>

StopCaptureProgram(capturing) ==
    << Lock("is_capturing") >> \o
    ( IF capturing THEN Locked("input_capture_handle") ELSE << >> ) \o
    << Unlock("is_capturing") >>

RequestConnectionProgram ==
    Locked("outgoing_request") \o Locked("discovered_devices")

\* A reject handler that keeps the guard of the latest request until its end.
RejectHoldingLatest(found) ==
    << Lock("latest_connection_request"), Lock("pending_connections") >> \o
    ( IF found THEN << SendTcpOp >> ELSE << >> ) \o
    << Unlock("pending_connections"), Unlock("latest_connection_request") >>

RejectConnectionProgram(found) ==
    Locked("latest_connection_request") \o
    << Lock("pending_connections") >> \o
    ( IF found THEN << SendTcpOp >> ELSE << >> ) \o
    << Unlock("pending_connections") >>

AcceptConnectionProgram(found, sent) ==
    Locked("latest_connection_request") \o
    << Lock("pending_connections") >> \o
    ( IF found
      THEN << SendTcpOp >> \o
           ( IF sent THEN Locked("active_connections") ELSE << >> )
      ELSE << >> ) \o
    << Unlock("pending_connections") >>

\* The guards of a handler are dropped at its end, the last declared first.
DisconnectProgram(capturing) ==
    << Lock("is_capturing") >> \o
    ( IF capturing THEN Locked("input_capture_handle") ELSE << >> ) \o
    << Lock("active_connections") >> \o Locked("pending_connections") \o
    << Unlock("active_connections"), Unlock("is_capturing") >>

ExitRequestedProgram(capturing) ==
    << Lock("is_capturing") >> \o
    ( IF capturing
      THEN Locked("input_capture_handle") \o Locked("input_capture_handle")
      ELSE << >> ) \o
    << Lock("active_connections") >> \o Locked("pending_connections") \o
    << Unlock("active_connections"), Unlock("is_capturing") >>

\* The handlers a task may run.
Programs(t) ==
    CASE t = "handshake" ->
           { HandshakeProgram(known, old) : known \in BOOLEAN, old \in BOOLEAN }
           \cup { HandshakeErrorProgram(found) : found \in BOOLEAN }
      [] t = "cleanup" -> { CleanupProgram(expired) : expired \in BOOLEAN }
      [] t = "connect" -> { ConnectProgram }
      [] t = "writer" -> { WriterProgram }
      [] OTHER ->
           { Locked("discovered_devices"),         \* discovery, startDiscovery
             Locked("latest_connection_request"),  \* getLocalInfo
             Locked("outgoing_request"),           \* cancelConnection
             Locked("active_connections"),         \* sendInput, captured input
             RequestConnectionProgram }
           \cup { StartCaptureProgram(c) : c \in BOOLEAN }
           \cup { StopCaptureProgram(c) : c \in BOOLEAN }
           \cup { RejectConnectionProgram(f) : f \in BOOLEAN }
           \cup { AcceptConnectionProgram(f, ok) : f \in BOOLEAN, ok \in BOOLEAN }
           \cup { DisconnectProgram(c) : c \in BOOLEAN }
           \cup { ExitRequestedProgram(c) : c \in BOOLEAN }

NoLocks == [t \in Tasks |-> [prog |-> << >>, held |-> {}]]

\* No batch of datagrams under comparison.
NoDatagrams == [todo |-> << << >>, << >> >>, table |-> << Empty, Empty >>]

NoBus ==
    [sent |-> 0,
     rx |-> [r \in Receivers |-> [next |-> 1, got |-> << >>, running |-> TRUE]]]

Init ==
    /\ link = NoLink
    /\ bus = NoBus
    /\ locks = NoLocks
    /\ datagrams = NoDatagrams
    /\ now = 0
    /\ discovered_devices \in InitialTables
    /\ pending_connections = Empty
    /\ latest_connection_request = None
    /\ outgoing_request = None
    /\ active_connections = Empty
    /\ is_capturing = FALSE
    /\ should_stop = [i \in Captures |-> FALSE]
    /\ input_rx = None
    /\ capture_queue = [i \in Captures |-> << >>]
    /\ hook = [i \in Captures |-> NoHook]
    /\ tcp_in = [c \in Inbound |-> NoConn]
    /\ connect_task = [a \in Outbound |-> NoTask]
    /\ session = Empty
    /\ cancelled_notified = {}
    /\ ws_out = << >>

\* The passage of time between two readings of the clock.
Tick ==
    /\ now + TickUnits <= Horizon
    /\ now' = now + TickUnits
    /\ ws_out' = << >>
    /\ UNCHANGED << discovered_devices, pending_connections,
                    latest_connection_request, outgoing_request,
                    active_connections, is_capturing, should_stop, tcp_in,
                    connect_task, session, cancelled_notified >>
    /\ UNCHANGED hook_vars
    /\ UNCHANGED locks
    /\ UNCHANGED datagrams
    /\ UNCHANGED bus
    /\ UNCHANGED link

\* The shorter waits of a run: half a second, and the staleness limit of
\* the peer table plus zero to two seconds.
Waits == {1} \cup { StaleSecs * Resolution + k : k \in 0..(2 * Resolution) }

\* A passage of time shorter than a tick.
Elapse(d) ==
    /\ now + d <= Horizon
    /\ now' = now + d
    /\ ws_out' = << >>
    /\ UNCHANGED << discovered_devices, pending_connections,
                    latest_connection_request, outgoing_request,
                    active_connections, is_capturing, should_stop, tcp_in,
                    connect_task, session, cancelled_notified >>
    /\ UNCHANGED hook_vars
    /\ UNCHANGED locks
    /\ UNCHANGED datagrams
    /\ UNCHANGED bus
    /\ UNCHANGED link

\* ------------------------------------------------- control bus messages
ConnectionRequest(dev) == [type |-> "connectionRequest", device |-> dev]
ConnectionRequestCancelled(id) ==
    [type |-> "connectionRequestCancelled", device_id |-> id]
ConnectionEstablished(id) ==
    [type |-> "connectionEstablished", device_id |-> id]
ConnectionFailed(id, why) ==
    [type |-> "connectionFailed", device_id |-> id, reason |-> why]
DeviceFound(dev) == [type |-> "deviceFound", device |-> dev]
LocalInfo == [type |-> "localInfo", device_id |-> LocalDeviceId]
Disconnected == [type |-> "disconnected"]
RemoteInput(kind, k) == [type |-> "remoteInput", event_type |-> kind, key |-> k]
LocalInput(kind) == [type |-> "localInput", event_type |-> kind]

\* ------------------------------------------- TCP listener, handshake task
\* listener.accept(): a peer at `ip` connects; the handshake task is spawned
\* and waits in Transport::recv_tcp for the first frame.
ListenerAccept(c, ip) ==
    /\ tcp_in[c].pc = "none"
    /\ \A b \in Inbound : b < c => tcp_in[b].pc # "none"
    /\ tcp_in' = [tcp_in EXCEPT ![c] = [NoConn EXCEPT !.pc = "recv",
                                                     !.ip = ip,
                                                     !.stream = "task"]]
    /\ ws_out' = << >>
    /\ UNCHANGED << now, discovered_devices, pending_connections,
                    latest_connection_request, outgoing_request,
                    active_connections, is_capturing, should_stop,
                    connect_task, session, cancelled_notified >>
    /\ UNCHANGED hook_vars
    /\ UNCHANGED locks
    /\ UNCHANGED datagrams
    /\ UNCHANGED bus
    /\ UNCHANGED link

\* The peer drops its end of inbound connection c (EOF at this host).
RemoteClose(c) ==
    /\ tcp_in[c].pc # "none"
    /\ ~tcp_in[c].peer_closed
    /\ tcp_in[c].stream # "closed"
    /\ tcp_in' = [tcp_in EXCEPT ![c].peer_closed = TRUE]
    /\ ws_out' = << >>
    /\ UNCHANGED << now, discovered_devices, pending_connections,
                    latest_connection_request, outgoing_request,
                    active_connections, is_capturing, should_stop,
                    connect_task, session, cancelled_notified >>
    /\ UNCHANGED hook_vars
    /\ UNCHANGED locks
    /\ UNCHANGED datagrams
    /\ UNCHANGED bus
    /\ UNCHANGED link

\* devs.values().find(|(dev, _)| dev.ip == addr.ip().to_string())
\* A lookup that takes any known device for the sender.
DevicesAnywhere(ip) ==
    { discovered_devices[id].device : id \in DOMAIN discovered_devices }

\* devs.values().find(|(dev, _)| dev.ip == addr.ip().to_string())
DevicesAt(ip) ==
    { discovered_devices[id].device :
        id \in { i \in DOMAIN discovered_devices :
                   discovered_devices[i].device.ip = ip } }

\* A sweep that finds no request old enough.
ExpiredNever(pending) == {}

\* The pending requests older than 30 seconds.
Expired(pending) ==
    { k \in DOMAIN pending :
        ElapsedSecs(pending[k].timestamp) > PendingTimeoutSecs }

\* A handshake that keeps the older requests instead of draining them.
DrainedNone(pending) == {}

\* pending.drain(): the older requests a new request supersedes.
Drained(pending) == DOMAIN pending

\* Streams taken out of the pending table and dropped without an answer.
DropStreams(conns, pending, addrs, drained) ==
    [x \in Inbound |->
        IF \E k \in addrs : pending[k].stream = x
        THEN [conns[x] EXCEPT !.stream = "closed"]
        ELSE conns[x]]

\* Transport::send_tcp(&mut old_stream, ConnectResponse{success: false})
\* on every stream taken out of the pending table, which is then dropped.
RejectStreams(conns, pending, addrs, drained) ==
    [x \in Inbound |->
        IF \E k \in addrs : pending[k].stream = x
        THEN [conns[x] EXCEPT
                !.responses = Append(@, FALSE),
                !.stream = "closed",
                !.superseded = \E k \in drained : pending[k].stream = x]
        ELSE conns[x]]

\* Ok(Message::ConnectRequest), the source address resolves to a device:
\* under the pending lock, expire, drain, insert.
HandshakeInsert(c, dev) ==
    LET expired == Expired(pending_connections)
        kept == Del(pending_connections, expired)
        drained == Drained(kept)
        rejected == RejectStreams(tcp_in, pending_connections,
                                  expired \cup drained, drained)
    IN  /\ pending_connections' =
              Put(Del(kept, drained), AddrOf(c),
                  [stream |-> c, device |-> dev, timestamp |-> now])
        /\ tcp_in' = [rejected EXCEPT ![c].pc = "publish",
                                      ![c].first = "ConnectRequest",
                                      ![c].device = Some(dev),
                                      ![c].stream = "pending"]

HandshakeConnectRequest(c) ==
    /\ tcp_in[c].pc = "recv"
    /\ IF DevicesAt(tcp_in[c].ip) # {}
       THEN \E dev \in DevicesAt(tcp_in[c].ip) : HandshakeInsert(c, dev)
       ELSE /\ tcp_in' = [tcp_in EXCEPT ![c].pc = "done",
                                        ![c].first = "ConnectRequest",
                                        ![c].responses = Append(@, FALSE),
                                        ![c].stream = "closed"]
            /\ UNCHANGED pending_connections
    /\ ws_out' = << >>
    /\ UNCHANGED << now, discovered_devices, latest_connection_request,
                    outgoing_request, active_connections, is_capturing,
                    should_stop, connect_task, session, cancelled_notified >>
    /\ UNCHANGED hook_vars
    /\ UNCHANGED locks
    /\ UNCHANGED datagrams
    /\ UNCHANGED bus
    /\ UNCHANGED link

\* After the pending lock is dropped: save as latest request, notify the UI.
HandshakePublish(c) ==
    /\ tcp_in[c].pc = "publish"
    /\ latest_connection_request' = Some(Unwrap(tcp_in[c].device))
    /\ ws_out' = << ConnectionRequest(Unwrap(tcp_in[c].device)) >>
    /\ tcp_in' = [tcp_in EXCEPT ![c].pc = "done"]
    /\ UNCHANGED << now, discovered_devices, pending_connections,
                    outgoing_request, active_connections, is_capturing,
                    should_stop, connect_task, session, cancelled_notified >>
    /\ UNCHANGED hook_vars
    /\ UNCHANGED locks
    /\ UNCHANGED datagrams
    /\ UNCHANGED bus
    /\ UNCHANGED link

\* Ok(msg), msg not ConnectRequest: logged; the task ends and drops the stream.
HandshakeUnexpected(c) ==
    /\ tcp_in[c].pc = "recv"
    /\ tcp_in' = [tcp_in EXCEPT ![c].pc = "done", ![c].first = "unexpected",
                                ![c].stream = "closed"]
    /\ ws_out' = << >>
    /\ UNCHANGED << now, discovered_devices, pending_connections,
                    latest_connection_request, outgoing_request,
                    active_connections, is_capturing, should_stop,
                    connect_task, session, cancelled_notified >>
    /\ UNCHANGED hook_vars
    /\ UNCHANGED locks
    /\ UNCHANGED datagrams
    /\ UNCHANGED bus
    /\ UNCHANGED link

\* Err(e) on the first frame: a pending entry under this address, if any,
\* is removed and reported as cancelled.
HandshakeError(c) ==
    /\ tcp_in[c].pc = "recv"
    /\ LET addr == AddrOf(c)
           hit == addr \in DOMAIN pending_connections
           id == pending_connections[addr].device.id
       IN  /\ pending_connections' =
                 IF hit THEN Del(pending_connections, {addr})
                        ELSE pending_connections
           /\ ws_out' = IF hit THEN << ConnectionRequestCancelled(id) >>
                               ELSE << >>
           /\ cancelled_notified' =
                 IF hit THEN cancelled_notified \cup {id}
                        ELSE cancelled_notified
           /\ latest_connection_request' =
                 IF hit /\ IsSome(latest_connection_request)
                        /\ Unwrap(latest_connection_request).id = id
                 THEN None ELSE latest_connection_request
    /\ tcp_in' = [tcp_in EXCEPT ![c].pc = "done", ![c].first = "error",
                                ![c].stream = "closed"]
    /\ UNCHANGED << now, discovered_devices, outgoing_request,
                    active_connections, is_capturing, should_stop,
                    connect_task, session >>
    /\ UNCHANGED hook_vars
    /\ UNCHANGED locks
    /\ UNCHANGED datagrams
    /\ UNCHANGED bus
    /\ UNCHANGED link

\* ------------------------------------------------- periodic cleanup task
\* interval.tick(): every expired pending request is removed and answered
\* with ConnectResponse{success: false}.
CleanupTick ==
    LET expired == Expired(pending_connections)
    IN  /\ pending_connections' = Del(pending_connections, expired)
        /\ tcp_in' = RejectStreams(tcp_in, pending_connections, expired, {})
        /\ ws_out' = << >>
        /\ UNCHANGED << now, discovered_devices, latest_connection_request,
                        outgoing_request, active_connections, is_capturing,
                        should_stop, connect_task, session,
                        cancelled_notified >>
        /\ UNCHANGED hook_vars
        /\ UNCHANGED locks
        /\ UNCHANGED datagrams
    /\ UNCHANGED bus
    /\ UNCHANGED link

\* ------------------------------------------------ main loop: discovery
\* Message::Discovery{id, name, port} received from `ann.ip`.
\* The peer table after the handler has seen datagram ann at time t: its
\* own announces are skipped, any other (re)places the entry of its id.
Upsert(devices, ann, t) ==
    IF ann.id = LocalDeviceId THEN devices
    ELSE Put(devices, ann.id, [device |-> ann, last_seen |-> t])

DiscoveryEvent(ann) ==
    /\ IF ann.id = LocalDeviceId
       THEN /\ UNCHANGED discovered_devices
            /\ ws_out' = << >>
       ELSE /\ discovered_devices' = Upsert(discovered_devices, ann, now)
            /\ ws_out' = IF ann.id \in DOMAIN discovered_devices
                         THEN << >> ELSE << DeviceFound(ann) >>
    /\ UNCHANGED << now, pending_connections, latest_connection_request,
                    outgoing_request, active_connections, is_capturing,
                    should_stop, tcp_in, connect_task, session,
                    cancelled_notified >>
    /\ UNCHANGED hook_vars
    /\ UNCHANGED locks
    /\ UNCHANGED datagrams
    /\ UNCHANGED bus
    /\ UNCHANGED link

\* devices.retain(|id, (_, last_seen)| age <= 10)
Retained(devices) ==
    { id \in DOMAIN devices : ~(ElapsedSecs(devices[id].last_seen) > StaleSecs) }

\* The orders in which a HashMap may yield the values of `devices`.
RECURSIVE ValueOrders(_)
ValueOrders(devices) ==
    IF DOMAIN devices = {} THEN { << >> }
    ELSE UNION { { << devices[id].device >> \o rest :
                     rest \in ValueOrders(Del(devices, {id})) } :
                 id \in DOMAIN devices }

StartDiscovery ==
    LET kept == Del(discovered_devices,
                    DOMAIN discovered_devices \ Retained(discovered_devices))
    IN  /\ discovered_devices' = kept
        /\ \E order \in ValueOrders(kept) :
              ws_out' = [i \in 1..Len(order) |-> DeviceFound(order[i])]
        /\ UNCHANGED << now, pending_connections, latest_connection_request,
                        outgoing_request, active_connections, is_capturing,
                        should_stop, tcp_in, connect_task, session,
                        cancelled_notified >>
        /\ UNCHANGED hook_vars
        /\ UNCHANGED locks
        /\ UNCHANGED datagrams
    /\ UNCHANGED bus
    /\ UNCHANGED link

\* --------------------------------------------- main loop: UI commands
GetLocalInfo ==
    /\ ws_out' = << LocalInfo >> \o
                 (IF IsSome(latest_connection_request)
                  THEN << ConnectionRequest(Unwrap(latest_connection_request)) >>
                  ELSE << >>)
    /\ UNCHANGED << now, discovered_devices, pending_connections,
                    latest_connection_request, outgoing_request,
                    active_connections, is_capturing, should_stop, tcp_in,
                    connect_task, session, cancelled_notified >>
    /\ UNCHANGED hook_vars
    /\ UNCHANGED locks
    /\ UNCHANGED datagrams
    /\ UNCHANGED bus
    /\ UNCHANGED link

\* StartCapture: only when not capturing, whatever the connection state.
StartCaptureAllowed == ~is_capturing

\* InputCapture::new() and start_capture(): the lowest instance not used yet
\* gets a fresh stop flag and channel, and its hook thread is spawned.
FreeCapture(i) ==
    /\ ~hook[i].installed
    /\ \A j \in Captures : j < i => hook[j].installed

\* input_rx = None (with *input_capture_handle = None): the receiver is
\* dropped, and with it whatever the hook had sent and was not read.
DropReceiver(queues, rx) ==
    IF IsSome(rx) THEN [queues EXCEPT ![Unwrap(rx)] = << >>] ELSE queues

StartCapture ==
    /\ IF StartCaptureAllowed
       THEN \E i \in Captures :
              /\ FreeCapture(i)
              /\ hook' = [hook EXCEPT ![i].installed = TRUE]
              /\ input_rx' = Some(i)
              /\ is_capturing' = TRUE
       ELSE UNCHANGED << is_capturing, input_rx, hook >>
    /\ ws_out' = << >>
    /\ UNCHANGED << now, discovered_devices, pending_connections,
                    latest_connection_request, outgoing_request,
                    active_connections, should_stop, capture_queue, tcp_in,
                    connect_task, session, cancelled_notified,
                    link, bus, locks, datagrams >>

\* StopCapture drops the handle and the receiver; stop_capture() is not called.
StopCapture ==
    /\ IF is_capturing
       THEN /\ input_rx' = None
            /\ capture_queue' = DropReceiver(capture_queue, input_rx)
            /\ is_capturing' = FALSE
       ELSE UNCHANGED << is_capturing, input_rx, capture_queue >>
    /\ ws_out' = << >>
    /\ UNCHANGED << now, discovered_devices, pending_connections,
                    latest_connection_request, outgoing_request,
                    active_connections, should_stop, hook, tcp_in,
                    connect_task, session, cancelled_notified,
                    link, bus, locks, datagrams >>

\* Overwriting or clearing outgoing_request drops the cancel sender stored
\* in it: the oneshot receiver of that connect task becomes ready.
DropSender(tasks, req) ==
    IF IsSome(req) /\ Unwrap(req).cancel_tx \in DOMAIN tasks
                   /\ tasks[Unwrap(req).cancel_tx].cancel = "armed"
    THEN [tasks EXCEPT ![Unwrap(req).cancel_tx].cancel = "dropped"]
    ELSE tasks

\* The lowest connect task slot not used yet.
FreeTask(a) ==
    /\ connect_task[a].pc = "none"
    /\ \A b \in DOMAIN connect_task : b < a => connect_task[b].pc # "none"

RequestConnection(target) ==
    /\ IF target \in DOMAIN discovered_devices
       THEN \E a \in DOMAIN connect_task :
              /\ FreeTask(a)
              /\ outgoing_request' =
                    Some([target |-> target, cancel_tx |-> a])
              /\ connect_task' =
                    [DropSender(connect_task, outgoing_request) EXCEPT
                       ![a] = [NoTask EXCEPT
                                 !.pc = "connect",
                                 !.target = target,
                                 !.ip = discovered_devices[target].device.ip,
                                 !.started = now]]
              /\ ws_out' = << >>
       ELSE /\ outgoing_request' =
                  Some([target |-> target, cancel_tx |-> 0])
            /\ connect_task' = DropSender(connect_task, outgoing_request)
            /\ ws_out' = << ConnectionFailed(target, "not-found") >>
    /\ UNCHANGED << now, discovered_devices, pending_connections,
                    latest_connection_request, active_connections,
                    is_capturing, should_stop, tcp_in, session,
                    cancelled_notified >>
    /\ UNCHANGED hook_vars
    /\ UNCHANGED locks
    /\ UNCHANGED datagrams
    /\ UNCHANGED bus
    /\ UNCHANGED link

\* pending.iter().find(|(_, (_, dev, _))| dev.id == target_device_id)
PendingFrom(target) ==
    { k \in DOMAIN pending_connections :
        pending_connections[k].device.id = target }

RejectConnection(target) ==
    /\ latest_connection_request' = None
    /\ IF PendingFrom(target) # {}
       THEN \E addr \in PendingFrom(target) :
              /\ pending_connections' = Del(pending_connections, {addr})
              /\ tcp_in' = RejectStreams(tcp_in, pending_connections,
                                         {addr}, {})
       ELSE UNCHANGED << pending_connections, tcp_in >>
    /\ ws_out' = << >>
    /\ UNCHANGED << now, discovered_devices, outgoing_request,
                    active_connections, is_capturing, should_stop,
                    connect_task, session, cancelled_notified >>
    /\ UNCHANGED hook_vars
    /\ UNCHANGED locks
    /\ UNCHANGED datagrams
    /\ UNCHANGED bus
    /\ UNCHANGED link

CancelConnection ==
    /\ outgoing_request' = None
    /\ connect_task' =
          IF IsSome(outgoing_request)
             /\ Unwrap(outgoing_request).cancel_tx \in DOMAIN connect_task
          THEN [connect_task EXCEPT
                  ![Unwrap(outgoing_request).cancel_tx].cancel = "sent"]
          ELSE connect_task
    /\ ws_out' = << >>
    /\ UNCHANGED << now, discovered_devices, pending_connections,
                    latest_connection_request, active_connections,
                    is_capturing, should_stop, tcp_in, session,
                    cancelled_notified >>
    /\ UNCHANGED hook_vars
    /\ UNCHANGED locks
    /\ UNCHANGED datagrams
    /\ UNCHANGED bus
    /\ UNCHANGED link

\* A session as its tasks start: both halves running, nothing queued.
NewSession ==
    [writer |-> "run", reader |-> "run", queue |-> << >>, disconnected |-> 0]

\* An accept that answers whichever request is pending, whatever its sender.
AcceptedAny(target) == DOMAIN pending_connections

\* The pending requests an acceptConnection{target} answers positively.
Accepted(target) == PendingFrom(target)

\* send_tcp may fail only on a connection the peer has already dropped.
SendResults(closed) == IF closed THEN {TRUE, FALSE} ELSE {TRUE}

AcceptConnection(target) ==
    /\ latest_connection_request' = None
    /\ IF Accepted(target) # {}
       THEN \E addr \in Accepted(target) :
            LET c == pending_connections[addr].stream
            IN  /\ pending_connections' = Del(pending_connections, {addr})
                /\ \E sent \in SendResults(tcp_in[c].peer_closed) :
                     IF sent
                     THEN /\ tcp_in' = [tcp_in EXCEPT
                                          ![c].responses = Append(@, TRUE),
                                          ![c].stream = "session"]
                          /\ active_connections' =
                                Put(active_connections, addr, InSession(c))
                          /\ session' = Put(session, InSession(c), NewSession)
                          /\ ws_out' = << ConnectionEstablished(target) >>
                     ELSE /\ tcp_in' = [tcp_in EXCEPT ![c].stream = "closed"]
                          /\ ws_out' = << >>
                          /\ UNCHANGED << active_connections, session >>
       ELSE /\ ws_out' = << >>
            /\ UNCHANGED << pending_connections, tcp_in, active_connections,
                            session >>
    /\ UNCHANGED << now, discovered_devices, outgoing_request, is_capturing,
                    should_stop, connect_task, cancelled_notified >>
    /\ UNCHANGED hook_vars
    /\ UNCHANGED locks
    /\ UNCHANGED datagrams
    /\ UNCHANGED bus
    /\ UNCHANGED link

\* connections.clear(): every sender is dropped; the sessions that were
\* registered are the ones this teardown reports.
Reported(sessions, conns) ==
    [s \in DOMAIN sessions |->
        IF \E k \in DOMAIN conns : conns[k] = s
        THEN [sessions[s] EXCEPT !.disconnected = @ + 1]
        ELSE sessions[s]]

\* pending_connections.clear(): the held streams are dropped unanswered.
DropPending(conns, pending) ==
    [x \in Inbound |->
        IF \E k \in DOMAIN pending : pending[k].stream = x
        THEN [conns[x] EXCEPT !.stream = "closed"]
        ELSE conns[x]]

Disconnect ==
    /\ IF is_capturing
       THEN /\ input_rx' = None
            /\ capture_queue' = DropReceiver(capture_queue, input_rx)
            /\ is_capturing' = FALSE
       ELSE UNCHANGED << is_capturing, input_rx, capture_queue >>
    /\ active_connections' = Empty
    /\ session' = Reported(session, active_connections)
    /\ pending_connections' = Empty
    /\ tcp_in' = DropPending(tcp_in, pending_connections)
    /\ ws_out' = << Disconnected >>
    /\ UNCHANGED << now, discovered_devices, latest_connection_request,
                    outgoing_request, should_stop, hook, connect_task,
                    cancelled_notified,
                    link, bus, locks, datagrams >>

\* ------------------------------------------------- wire messages, input
MouseMove(x, y) == [type |-> "MouseMove", x |-> x, y |-> y]
MouseClick(button, state) ==
    [type |-> "MouseClick", button |-> button, state |-> state]
KeyPress(key, state) == [type |-> "KeyPress", key |-> key, state |-> state]
DisconnectFrame == [type |-> "Disconnect"]

\* `v as i32` of an f64 given in tenths: truncation toward zero.
AsI32(tenths) ==
    IF tenths >= 0 THEN tenths \div 10 ELSE -((-tenths) \div 10)

\* key.chars().next().unwrap_or('\0') as u32
FirstChar(key) ==
    CASE key = "a" -> 97
      [] key = "Return" -> 82
      [] OTHER -> 0

\* An InputEvent of the control bus; dx, dy in tenths.
UiEvent(kind, dx, dy, key) ==
    [event_type |-> kind, dx |-> dx, dy |-> dy, key |-> key]

\* The sendInput events the UI issues.
UiEvents ==
    { UiEvent("mousemove", Some(5), Some(0), None),
      UiEvent("mousedown", None, None, Some("button0")),
      UiEvent("mousedown", None, None, Some("button1")) }

\* A sender that takes every click for the left button.
UiButtonLeft(key) == 0

\* The button a sendInput mousedown / mouseup names.
UiButton(key) ==
    IF key = Some("button1") THEN 1
    ELSE IF key = Some("button2") THEN 2 ELSE 0

\* Pointer moves the UI may send while this host captures: less than a
\* pixel, and more than a pixel one way with less than a pixel the other.
UiMoves ==
    { UiEvent("mousemove", Some(-5), Some(5), None),
      UiEvent("mousemove", Some(-15), Some(5), None) }

\* A sender that forwards every pointer move, whatever its size.
ForwardEveryMove(ev) ==
    CASE ev.event_type = "mousemove" /\ IsSome(ev.dx) /\ IsSome(ev.dy) ->
           Some(MouseMove(AsI32(Unwrap(ev.dx)), AsI32(Unwrap(ev.dy))))
      [] OTHER -> None

\* The wire message of a sendInput event, None when nothing is sent.
UiMessage(ev) ==
    CASE ev.event_type = "mousemove" ->
           IF IsSome(ev.dx) /\ IsSome(ev.dy)
              /\ (AsI32(Unwrap(ev.dx)) # 0 \/ AsI32(Unwrap(ev.dy)) # 0)
           THEN Some(MouseMove(AsI32(Unwrap(ev.dx)), AsI32(Unwrap(ev.dy))))
           ELSE None
      [] ev.event_type = "mousedown" -> Some(MouseClick(UiButton(ev.key), TRUE))
      [] ev.event_type = "mouseup" -> Some(MouseClick(UiButton(ev.key), FALSE))
      [] ev.event_type \in {"keydown", "keyup"} ->
           IF IsSome(ev.key)
           THEN Some(KeyPress(FirstChar(Unwrap(ev.key)),
                              ev.event_type = "keydown"))
           ELSE None
      [] OTHER -> None

\* The sessions whose sender is registered.
Registered(conns) == { conns[k] : k \in DOMAIN conns }

\* sender.send(msg) on every registered sender.
Enqueue(sessions, conns, msg) ==
    [s \in DOMAIN sessions |->
        IF s \in Registered(conns) /\ sessions[s].writer = "run"
        THEN [sessions[s] EXCEPT !.queue = Append(@, msg)]
        ELSE sessions[s]]

\* The outbound channels are unbounded; the model stops filling them here.
RoomFor(sessions, conns) ==
    \A s \in Registered(conns) : Len(sessions[s].queue) < MaxQueue

SendInput(ev) ==
    /\ RoomFor(session, active_connections)
    /\ session' =
          IF active_connections # Empty /\ IsSome(UiMessage(ev))
          THEN Enqueue(session, active_connections, Unwrap(UiMessage(ev)))
          ELSE session
    /\ ws_out' = << >>
    /\ UNCHANGED << now, discovered_devices, pending_connections,
                    latest_connection_request, outgoing_request,
                    active_connections, is_capturing, should_stop, tcp_in,
                    connect_task, cancelled_notified >>
    /\ UNCHANGED hook_vars
    /\ UNCHANGED locks
    /\ UNCHANGED datagrams
    /\ UNCHANGED bus
    /\ UNCHANGED link

\* ------------------------------------------------ capture hook callback
\* rdev events the OS delivers to a grab callback; pointer positions are
\* given as the offset from the anchor, in tenths of a pixel.
HookEvents ==
    { [type |-> "KeyPress", key |-> "ControlLeft"],
      [type |-> "KeyRelease", key |-> "ControlLeft"],
      [type |-> "KeyPress", key |-> "Alt"],
      [type |-> "KeyPress", key |-> "KeyQ"],
      [type |-> "KeyPress", key |-> "KeyA"],
      [type |-> "MouseMove", dx |-> 0, dy |-> 0],
      [type |-> "MouseMove", dx |-> 15, dy |-> 0],
      [type |-> "MouseMove", dx |-> 5, dy |-> -5],
      [type |-> "ButtonPress", button |-> "Right"],
      [type |-> "Wheel"] }

\* CaptureControl, the messages of the hook's channel.
ControlExit == [type |-> "ExitRequested"]
ControlInput(evt) == [type |-> "InputEvent", event |-> evt]

InputEventData(kind, key, code, dx, dy) ==
    [event_type |-> kind, key |-> key, key_code |-> code,
     dx |-> dx, dy |-> dy]

rdev_key_to_code(key) ==
    CASE key = "KeyA" -> 65
      [] key = "KeyQ" -> 81
      [] OTHER -> 0

\* The button names of the callback.
ButtonKey(button) ==
    CASE button = "Left" -> "button0"
      [] button = "Right" -> "button1"
      [] button = "Middle" -> "button2"
      [] OTHER -> "button0"

\* Modifier tracking of the callback.
CtrlAfter(pressed, e) ==
    IF e.type = "KeyPress" /\ e.key \in {"ControlLeft", "ControlRight"}
    THEN TRUE
    ELSE IF e.type = "KeyRelease" /\ e.key \in {"ControlLeft", "ControlRight"}
         THEN FALSE ELSE pressed
AltAfter(pressed, e) ==
    IF e.type = "KeyPress" /\ e.key \in {"Alt", "AltGr"}
    THEN TRUE
    ELSE IF e.type = "KeyRelease" /\ e.key \in {"Alt", "AltGr"}
         THEN FALSE ELSE pressed

\* KeyPress(KeyQ) with Control and Alt held.
ExitShortcut(h, e) ==
    e.type = "KeyPress" /\ e.key = "KeyQ" /\ h.ctrl_pressed /\ h.alt_pressed

\* The InputEventData the callback builds for an event, if any.
Captured(e) ==
    CASE e.type = "MouseMove" ->
           IF e.dx # 0 \/ e.dy # 0
           THEN Some(InputEventData("mousemove", None, None,
                                    Some(e.dx), Some(e.dy)))
           ELSE None
      [] e.type = "KeyPress" ->
           Some(InputEventData("keydown", Some(e.key),
                               Some(rdev_key_to_code(e.key)), None, None))
      [] e.type = "KeyRelease" ->
           Some(InputEventData("keyup", Some(e.key),
                               Some(rdev_key_to_code(e.key)), None, None))
      [] e.type = "ButtonPress" ->
           Some(InputEventData("mousedown", Some(ButtonKey(e.button)),
                               None, None, None))
      [] e.type = "ButtonRelease" ->
           Some(InputEventData("mouseup", Some(ButtonKey(e.button)),
                               None, None, None))
      [] OTHER -> Some(InputEventData("wheel", None, None, Some(0), Some(0)))

\* A callback that blocks only the events it forwards.
VerdictOfForwarded(i, e) ==
    IF should_stop[i] \/ ExitShortcut(hook[i], e) \/ ~ IsSome(Captured(e))
    THEN "pass" ELSE "block"

\* What the callback of InputCapture i returns for event e: Some(event)
\* passes it on to the OS, None blocks it.
Verdict(i, e) ==
    IF should_stop[i] \/ ExitShortcut(hook[i], e) THEN "pass" ELSE "block"

\* What the callback of InputCapture i sends on its channel for event e.
Forwarded(i, e) ==
    IF should_stop[i] THEN None
    ELSE IF ExitShortcut(hook[i], e) THEN Some(ControlExit)
    ELSE IF IsSome(Captured(e)) THEN Some(ControlInput(Unwrap(Captured(e))))
    ELSE None

\* tx.send(msg): an error, ignored, once the receiver was dropped.
ChannelSend(queues, i, msg) ==
    IF input_rx = Some(i) /\ IsSome(msg)
    THEN [queues EXCEPT ![i] = Append(@, Unwrap(msg))]
    ELSE queues

\* The OS delivers event e to the callback of InputCapture i.
HookEvent(i, e) ==
    /\ hook[i].installed
    /\ Len(capture_queue[i]) < MaxQueue
    /\ capture_queue' = ChannelSend(capture_queue, i, Forwarded(i, e))
    /\ IF should_stop[i]
       THEN UNCHANGED << hook, should_stop >>
       ELSE /\ hook' = [hook EXCEPT
                          ![i].ctrl_pressed = CtrlAfter(@, e),
                          ![i].alt_pressed = AltAfter(@, e)]
            /\ should_stop' =
                  IF ExitShortcut(hook[i], e)
                  THEN [should_stop EXCEPT ![i] = TRUE]
                  ELSE should_stop
    /\ ws_out' = << >>
    /\ UNCHANGED << now, discovered_devices, pending_connections,
                    latest_connection_request, outgoing_request,
                    active_connections, is_capturing, input_rx, tcp_in,
                    connect_task, session, cancelled_notified,
                    link, bus, locks, datagrams >>

\* ------------------------------------- main loop: captured input, exit
\* Fallback of the forwarding code for events without key_code.
FallbackCode(key) ==
    CASE key = "KeyA" -> 65
      [] key = "KeyQ" -> 81
      [] key = "Return" -> 13
      [] key = "Space" -> 32
      [] key = "Backspace" -> 8
      [] key = "Tab" -> 9
      [] key = "Escape" -> 27
      [] OTHER -> 0

\* The button a captured mousedown / mouseup names.
CapturedButton(key) ==
    CASE key = "button0" -> 0
      [] key = "button1" -> 1
      [] key = "button2" -> 2
      [] OTHER -> 0

\* The wire message of a captured event, None when nothing is sent.
CapturedMessage(evt) ==
    CASE evt.event_type = "mousemove" ->
           IF IsSome(evt.dx) /\ IsSome(evt.dy)
              /\ (AsI32(Unwrap(evt.dx)) # 0 \/ AsI32(Unwrap(evt.dy)) # 0)
           THEN Some(MouseMove(AsI32(Unwrap(evt.dx)), AsI32(Unwrap(evt.dy))))
           ELSE None
      [] evt.event_type \in {"mousedown", "mouseup"} ->
           IF IsSome(evt.key)
           THEN Some(MouseClick(CapturedButton(Unwrap(evt.key)),
                                evt.event_type = "mousedown"))
           ELSE None
      [] evt.event_type \in {"keydown", "keyup"} ->
           IF IsSome(evt.key_code)
           THEN IF Unwrap(evt.key_code) # 0
                THEN Some(KeyPress(Unwrap(evt.key_code),
                                   evt.event_type = "keydown"))
                ELSE None
           ELSE IF IsSome(evt.key) /\ FallbackCode(Unwrap(evt.key)) # 0
                THEN Some(KeyPress(FallbackCode(Unwrap(evt.key)),
                                   evt.event_type = "keydown"))
                ELSE None
      [] OTHER -> None

\* CaptureControl::InputEvent: shown to the UI (pointer moves excepted) and
\* forwarded to every session.
CapturedInput ==
    /\ IsSome(input_rx)
    /\ capture_queue[Unwrap(input_rx)] # << >>
    /\ Head(capture_queue[Unwrap(input_rx)]).type = "InputEvent"
    /\ RoomFor(session, active_connections)
    /\ LET evt == Head(capture_queue[Unwrap(input_rx)]).event
       IN  /\ ws_out' = IF evt.event_type # "mousemove"
                        THEN << LocalInput(evt.event_type) >> ELSE << >>
           /\ session' =
                 IF active_connections # Empty /\ IsSome(CapturedMessage(evt))
                 THEN Enqueue(session, active_connections,
                              Unwrap(CapturedMessage(evt)))
                 ELSE session
    /\ capture_queue' = [capture_queue EXCEPT ![Unwrap(input_rx)] = Tail(@)]
    /\ UNCHANGED << now, discovered_devices, pending_connections,
                    latest_connection_request, outgoing_request,
                    active_connections, is_capturing, should_stop, input_rx,
                    hook, tcp_in, connect_task, cancelled_notified,
                    link, bus, locks, datagrams >>

\* CaptureControl::ExitRequested: stop_capture() on the handle, capture off,
\* every connection and pending request dropped, Disconnected broadcast.
ExitRequested ==
    /\ IsSome(input_rx)
    /\ capture_queue[Unwrap(input_rx)] # << >>
    /\ Head(capture_queue[Unwrap(input_rx)]) = ControlExit
    /\ IF is_capturing
       THEN /\ should_stop' = [should_stop EXCEPT ![Unwrap(input_rx)] = TRUE]
            /\ input_rx' = None
            /\ capture_queue' = DropReceiver(capture_queue, input_rx)
            /\ is_capturing' = FALSE
       ELSE /\ capture_queue' =
                  [capture_queue EXCEPT ![Unwrap(input_rx)] = Tail(@)]
            /\ UNCHANGED << should_stop, input_rx, is_capturing >>
    /\ active_connections' = Empty
    /\ session' = Reported(session, active_connections)
    /\ pending_connections' = Empty
    /\ tcp_in' = DropPending(tcp_in, pending_connections)
    /\ ws_out' = << Disconnected >>
    /\ UNCHANGED << now, discovered_devices, latest_connection_request,
                    outgoing_request, hook, connect_task,
                    cancelled_notified,
                    link, bus, locks, datagrams >>

\* ------------------------------------------------------- connect task
\* TcpStream::connect succeeded within 5 s; the ConnectRequest is written.
ConnectEstablished(a, sent) ==
    /\ connect_task[a].pc = "connect"
    /\ IF sent
       THEN /\ connect_task' = [connect_task EXCEPT ![a].pc = "select",
                                                    ![a].request_sent = TRUE,
                                                    ![a].started = now]
            /\ ws_out' = << >>
       ELSE /\ connect_task' = [connect_task EXCEPT ![a].pc = "done",
                                                    ![a].outcome = "failed",
                                                    ![a].started = 0]
            /\ ws_out' = << ConnectionFailed(connect_task[a].target,
                                             "handshake-send") >>
    /\ UNCHANGED << now, discovered_devices, pending_connections,
                    latest_connection_request, outgoing_request,
                    active_connections, is_capturing, should_stop, tcp_in,
                    session, cancelled_notified >>
    /\ UNCHANGED hook_vars
    /\ UNCHANGED locks
    /\ UNCHANGED datagrams
    /\ UNCHANGED bus
    /\ UNCHANGED link

\* *outgoing_req.lock().await = None, then the task ends with `outcome`.
TaskEnds(a, outcome) ==
    /\ outgoing_request' = None
    /\ connect_task' =
          [DropSender(connect_task, outgoing_request) EXCEPT
             ![a].pc = "done", ![a].outcome = outcome, ![a].started = 0]

\* TcpStream::connect failed, or the 5 s connect timeout fired.
ConnectFailed(a, why) ==
    /\ connect_task[a].pc = "connect"
    /\ why = "connect-timeout" =>
          ElapsedSecs(connect_task[a].started) >= ConnectTimeoutSecs
    /\ TaskEnds(a, "failed")
    /\ ws_out' = << ConnectionFailed(connect_task[a].target, why) >>
    /\ UNCHANGED << now, discovered_devices, pending_connections,
                    latest_connection_request, active_connections,
                    is_capturing, should_stop, tcp_in, session,
                    cancelled_notified >>
    /\ UNCHANGED hook_vars
    /\ UNCHANGED locks
    /\ UNCHANGED datagrams
    /\ UNCHANGED bus
    /\ UNCHANGED link

\* The branches of the select! that are ready: cancel_rx resolves once the
\* sender has sent or was dropped; the response branch once the peer's
\* answer (or the 30 s timeout) is there.
CancelReady(a) == connect_task[a].cancel # "armed"

SelectCancel(a) ==
    /\ connect_task[a].pc = "select"
    /\ CancelReady(a)
    /\ TaskEnds(a, "cancelled")
    /\ ws_out' = << >>
    /\ UNCHANGED << now, discovered_devices, pending_connections,
                    latest_connection_request, active_connections,
                    is_capturing, should_stop, tcp_in, session,
                    cancelled_notified >>
    /\ UNCHANGED hook_vars
    /\ UNCHANGED locks
    /\ UNCHANGED datagrams
    /\ UNCHANGED bus
    /\ UNCHANGED link

\* Ok(Ok(ConnectResponse{success: true})): the session is installed.
SelectAccepted(a) ==
    /\ connect_task[a].pc = "select"
    /\ outgoing_request' = None
    /\ connect_task' =
          [DropSender(connect_task, outgoing_request) EXCEPT
             ![a].pc = "session", ![a].outcome = "established",
             ![a].started = 0]
    /\ active_connections' =
          Put(active_connections, ConnKey(connect_task[a].ip), OutSession(a))
    /\ session' = Put(session, OutSession(a), NewSession)
    /\ ws_out' = << ConnectionEstablished(connect_task[a].target) >>
    /\ UNCHANGED << now, discovered_devices, pending_connections,
                    latest_connection_request, is_capturing, should_stop,
                    tcp_in, cancelled_notified >>
    /\ UNCHANGED hook_vars
    /\ UNCHANGED locks
    /\ UNCHANGED datagrams
    /\ UNCHANGED bus
    /\ UNCHANGED link

\* ConnectResponse{success: false}, another message, a read error, or the
\* 30 s timeout.
SelectFailed(a, why) ==
    /\ connect_task[a].pc = "select"
    /\ why = "timeout" =>
          ElapsedSecs(connect_task[a].started) >= HandshakeTimeoutSecs
    /\ TaskEnds(a, "failed")
    /\ ws_out' = << ConnectionFailed(connect_task[a].target, why) >>
    /\ UNCHANGED << now, discovered_devices, pending_connections,
                    latest_connection_request, active_connections,
                    is_capturing, should_stop, tcp_in, session,
                    cancelled_notified >>
    /\ UNCHANGED hook_vars
    /\ UNCHANGED locks
    /\ UNCHANGED datagrams
    /\ UNCHANGED bus
    /\ UNCHANGED link

\* The peer drops its end of the connection of connect task a.
RemoteCloseOut(a) ==
    /\ connect_task[a].pc \in {"select", "session"}
    /\ ~connect_task[a].peer_closed
    /\ connect_task' = [connect_task EXCEPT ![a].peer_closed = TRUE]
    /\ ws_out' = << >>
    /\ UNCHANGED << now, discovered_devices, pending_connections,
                    latest_connection_request, outgoing_request,
                    active_connections, is_capturing, should_stop, tcp_in,
                    session, cancelled_notified >>
    /\ UNCHANGED hook_vars
    /\ UNCHANGED locks
    /\ UNCHANGED datagrams
    /\ UNCHANGED bus
    /\ UNCHANGED link

\* ------------------------------------------- session reader / writer tasks
\* The key under which a session's sender was registered.
SessionKey(s) ==
    IF s[1] = "in" THEN AddrOf(s[2]) ELSE ConnKey(connect_task[s[2]].ip)

\* Whether the peer of a session has dropped the connection.
PeerClosed(s) ==
    IF s[1] = "in" THEN tcp_in[s[2]].peer_closed
    ELSE connect_task[s[2]].peer_closed

\* Writer task: msg_rx.recv() yields a message and send_tcp_split succeeds.
WriterSend(s) ==
    /\ s \in DOMAIN session
    /\ session[s].writer = "run"
    /\ session[s].queue # << >>
    /\ session' = [session EXCEPT ![s].queue = Tail(@)]
    /\ ws_out' = << >>
    /\ UNCHANGED << now, discovered_devices, pending_connections,
                    latest_connection_request, outgoing_request,
                    active_connections, is_capturing, should_stop, tcp_in,
                    connect_task, cancelled_notified >>
    /\ UNCHANGED hook_vars
    /\ UNCHANGED locks
    /\ UNCHANGED datagrams
    /\ UNCHANGED bus
    /\ UNCHANGED link

\* Writer task: send_tcp_split fails; the key is removed, Disconnected sent.
WriterSendFailed(s) ==
    /\ s \in DOMAIN session
    /\ session[s].writer = "run"
    /\ session[s].queue # << >>
    /\ FALSE \in SendResults(PeerClosed(s))
    /\ active_connections' = Del(active_connections, {SessionKey(s)})
    /\ session' = [session EXCEPT ![s].writer = "done",
                                  ![s].queue = << >>,
                                  ![s].disconnected = @ + 1]
    /\ ws_out' = << Disconnected >>
    /\ UNCHANGED << now, discovered_devices, pending_connections,
                    latest_connection_request, outgoing_request,
                    is_capturing, should_stop, tcp_in, connect_task,
                    cancelled_notified >>
    /\ UNCHANGED hook_vars
    /\ UNCHANGED locks
    /\ UNCHANGED datagrams
    /\ UNCHANGED bus
    /\ UNCHANGED link

\* Writer task: every sender is gone and the channel is drained; recv()
\* yields None and the task ends silently.
WriterChannelClosed(s) ==
    /\ s \in DOMAIN session
    /\ session[s].writer = "run"
    /\ session[s].queue = << >>
    /\ s \notin Registered(active_connections)
    /\ session' = [session EXCEPT ![s].writer = "done"]
    /\ ws_out' = << >>
    /\ UNCHANGED << now, discovered_devices, pending_connections,
                    latest_connection_request, outgoing_request,
                    active_connections, is_capturing, should_stop, tcp_in,
                    connect_task, cancelled_notified >>
    /\ UNCHANGED hook_vars
    /\ UNCHANGED locks
    /\ UNCHANGED datagrams
    /\ UNCHANGED bus
    /\ UNCHANGED link

\* Frames a peer sends on an established session.
PeerFrames ==
    { MouseMove(1, 0), MouseClick(0, TRUE), MouseClick(1, TRUE),
      DisconnectFrame }

\* format!("button{}", button)
ButtonName(button) ==
    CASE button = 0 -> "button0"
      [] button = 1 -> "button1"
      [] button = 2 -> "button2"
      [] OTHER -> "button?"

\* char::from_u32(key).unwrap_or('?').to_string()
CharName(key) ==
    CASE key = 97 -> "a"
      [] key = 82 -> "R"
      [] key = 0 -> "NUL"
      [] OTHER -> "?"

\* What the acceptor's processing loop echoes to the UI for a frame.
Echo(m) ==
    CASE m.type = "MouseClick" ->
           << RemoteInput(IF m.state THEN "mousedown" ELSE "mouseup",
                          ButtonName(m.button)) >>
      [] m.type = "KeyPress" ->
           << RemoteInput(IF m.state THEN "keydown" ELSE "keyup",
                          CharName(m.key)) >>
      [] OTHER -> << >>

\* Acceptor: the reader task decodes a frame, the processing loop replays it.
AcceptorRecv(c, m) ==
    /\ InSession(c) \in DOMAIN session
    /\ session[InSession(c)].reader = "run"
    /\ ws_out' = Echo(m)
    /\ UNCHANGED << now, discovered_devices, pending_connections,
                    latest_connection_request, outgoing_request,
                    active_connections, is_capturing, should_stop, tcp_in,
                    connect_task, session, cancelled_notified >>
    /\ UNCHANGED hook_vars
    /\ UNCHANGED locks
    /\ UNCHANGED datagrams
    /\ UNCHANGED bus
    /\ UNCHANGED link

\* Acceptor: recv_tcp_split fails; the reader task breaks, the processing
\* loop ends and broadcasts Disconnected.
AcceptorReaderFailed(c) ==
    /\ InSession(c) \in DOMAIN session
    /\ session[InSession(c)].reader = "run"
    /\ tcp_in[c].peer_closed
    /\ session' = [session EXCEPT ![InSession(c)].reader = "done",
                                  ![InSession(c)].disconnected = @ + 1]
    /\ ws_out' = << Disconnected >>
    /\ UNCHANGED << now, discovered_devices, pending_connections,
                    latest_connection_request, outgoing_request,
                    active_connections, is_capturing, should_stop, tcp_in,
                    connect_task, cancelled_notified >>
    /\ UNCHANGED hook_vars
    /\ UNCHANGED locks
    /\ UNCHANGED datagrams
    /\ UNCHANGED bus
    /\ UNCHANGED link

\* Initiator: the reader loop receives a frame and only logs it.
InitiatorRecv(a, m) ==
    /\ OutSession(a) \in DOMAIN session
    /\ session[OutSession(a)].reader = "run"
    /\ ws_out' = << >>
    /\ UNCHANGED << now, discovered_devices, pending_connections,
                    latest_connection_request, outgoing_request,
                    active_connections, is_capturing, should_stop, tcp_in,
                    connect_task, session, cancelled_notified >>
    /\ UNCHANGED hook_vars
    /\ UNCHANGED locks
    /\ UNCHANGED datagrams
    /\ UNCHANGED bus
    /\ UNCHANGED link

\* Initiator: recv_tcp_split fails; the key is removed, Disconnected sent.
InitiatorReaderFailed(a) ==
    /\ OutSession(a) \in DOMAIN session
    /\ session[OutSession(a)].reader = "run"
    /\ connect_task[a].peer_closed
    /\ active_connections' =
          Del(active_connections, {ConnKey(connect_task[a].ip)})
    /\ session' = [session EXCEPT ![OutSession(a)].reader = "done",
                                  ![OutSession(a)].disconnected = @ + 1]
    /\ connect_task' = [connect_task EXCEPT ![a].pc = "done"]
    /\ ws_out' = << Disconnected >>
    /\ UNCHANGED << now, discovered_devices, pending_connections,
                    latest_connection_request, outgoing_request,
                    is_capturing, should_stop, tcp_in, cancelled_notified >>
    /\ UNCHANGED hook_vars
    /\ UNCHANGED locks
    /\ UNCHANGED datagrams
    /\ UNCHANGED bus
    /\ UNCHANGED link

\* ------------------------------------------------ transport: the codec
\* The remaining variants of Message; a String is its UTF-8 bytes.
Discovery(id, name, port) ==
    [type |-> "Discovery", id |-> id, name |-> name, port |-> port]
ConnectRequest == [type |-> "ConnectRequest"]
ConnectResponse(success) == [type |-> "ConnectResponse", success |-> success]

\* The w low bytes of n, least significant first; a negative n comes out in
\* two's complement.
RECURSIVE to_le_bytes(_, _)
to_le_bytes(n, w) ==
    IF w = 0 THEN << >> ELSE << n % 256 >> \o to_le_bytes(n \div 256, w - 1)

\* A sender that writes the magnitude of a number and loses its sign.
MagnitudeBytes(n, w) == to_le_bytes(IF n < 0 THEN -n ELSE n, w)

\* bincode, fixed width little endian: an i32 field.
I32Bytes(n, w) == to_le_bytes(n, w)

\* len.to_be_bytes()
to_be_bytes(n) ==
    LET le == to_le_bytes(n, 4) IN << le[4], le[3], le[2], le[1] >>

\* The unsigned number little-endian bytes stand for.
RECURSIVE from_le_bytes(_)
from_le_bytes(b) ==
    IF b = << >> THEN 0 ELSE Head(b) + 256 * from_le_bytes(Tail(b))

\* u32::from_be_bytes(len_buf)
from_be_bytes(b) == from_le_bytes(<< b[4], b[3], b[2], b[1] >>)

\* An i32 read from four little-endian bytes.
I32From(b) ==
    from_le_bytes(SubSeq(b, 1, 3)) +
    (IF b[4] >= 128 THEN b[4] - 256 ELSE b[4]) * (256 * 256 * 256)

BoolByte(v) == IF v THEN 1 ELSE 0

\* bincode: a String is its length as u64 and its bytes.
StringBytes(str) == to_le_bytes(Len(str), 8) \o str

\* bincode::serialize(message): the variant index as u32, then the fields
\* in order.
Serialize(m) ==
    CASE m.type = "Discovery" ->
           to_le_bytes(0, 4) \o StringBytes(m.id) \o StringBytes(m.name)
              \o to_le_bytes(m.port, 2)
      [] m.type = "MouseMove" ->
           to_le_bytes(1, 4) \o I32Bytes(m.x, 4) \o I32Bytes(m.y, 4)
      [] m.type = "MouseClick" ->
           to_le_bytes(2, 4) \o << m.button, BoolByte(m.state) >>
      [] m.type = "KeyPress" ->
           to_le_bytes(3, 4) \o to_le_bytes(m.key, 4)
              \o << BoolByte(m.state) >>
      [] m.type = "ConnectRequest" -> to_le_bytes(4, 4)
      [] m.type = "ConnectResponse" ->
           to_le_bytes(5, 4) \o << BoolByte(m.success) >>
      [] m.type = "Disconnect" -> to_le_bytes(6, 4)

\* Reading a String off the front of b: its bytes and what follows them.
ReadString(b) ==
    IF Len(b) < 8 THEN None
    ELSE LET n == from_le_bytes(SubSeq(b, 1, 8))
         IN  IF Len(b) < 8 + n THEN None
             ELSE Some([val |-> SubSeq(b, 9, 8 + n),
                        rest |-> SubSeq(b, 9 + n, Len(b))])

\* bincode::deserialize(&data): Some(message), or None for an error.  Bytes
\* left over after the message are ignored.
Deserialize(data) ==
    IF Len(data) < 4 THEN None
    ELSE
    LET tag == from_le_bytes(SubSeq(data, 1, 4))
        b == SubSeq(data, 5, Len(data))
    IN  CASE tag = 0 ->
               LET id == ReadString(b)
               IN  IF id = None THEN None
                   ELSE LET name == ReadString(Unwrap(id).rest)
                        IN  IF name = None \/ Len(Unwrap(name).rest) < 2
                            THEN None
                            ELSE Some(Discovery(
                                   Unwrap(id).val, Unwrap(name).val,
                                   from_le_bytes(SubSeq(Unwrap(name).rest,
                                                        1, 2))))
          [] tag = 1 ->
               IF Len(b) < 8 THEN None
               ELSE Some(MouseMove(I32From(SubSeq(b, 1, 4)),
                                   I32From(SubSeq(b, 5, 8))))
          [] tag = 2 ->
               IF Len(b) < 2 \/ b[2] \notin {0, 1} THEN None
               ELSE Some(MouseClick(b[1], b[2] = 1))
          [] tag = 3 ->
               IF Len(b) < 5 \/ b[5] \notin {0, 1} THEN None
               ELSE Some(KeyPress(from_le_bytes(SubSeq(b, 1, 4)), b[5] = 1))
          [] tag = 4 -> Some(ConnectRequest)
          [] tag = 5 ->
               IF Len(b) < 1 \/ b[1] \notin {0, 1} THEN None
               ELSE Some(ConnectResponse(b[1] = 1))
          [] tag = 6 -> Some(DisconnectFrame)
          [] OTHER -> None

\* send_tcp / send_tcp_split: the buffer handed to write_all.
Frame(m) ==
    LET data == Serialize(m) IN to_be_bytes(Len(data)) \o data

\* Messages of every variant: empty, one-byte and two-byte strings, numbers
\* of either sign and of more than one byte.
Messages ==
    { Discovery(<< 98 >>, << 195, 169 >>, 8080),
      Discovery(<< >>, << 66 >>, 65535),
      MouseMove(-1, 300),
      MouseMove(2147483647, -2147483647 - 1),
      MouseClick(0, TRUE),
      MouseClick(255, FALSE),
      KeyPress(65, TRUE),
      KeyPress(70000, FALSE),
      ConnectRequest,
      ConnectResponse(TRUE),
      ConnectResponse(FALSE),
      DisconnectFrame }

RECURSIVE SeqsUpTo(_, _)
SeqsUpTo(S, n) ==
    IF n = 0 THEN { << >> }
    ELSE LET shorter == SeqsUpTo(S, n - 1)
         IN  shorter \cup { Append(q, x) : q \in shorter, x \in S }

\* A sender about to write up to MaxFrames messages to a fresh stream.
InitCodec ==
    /\ bus = NoBus
    /\ locks = NoLocks
    /\ datagrams = NoDatagrams
    /\ link \in { [NoLink EXCEPT !.outbox = q] : q \in SeqsUpTo(Messages, MaxFrames) }
    /\ now = 0
    /\ discovered_devices = Empty
    /\ pending_connections = Empty
    /\ latest_connection_request = None
    /\ outgoing_request = None
    /\ active_connections = Empty
    /\ is_capturing = FALSE
    /\ should_stop = [i \in Captures |-> FALSE]
    /\ input_rx = None
    /\ capture_queue = [i \in Captures |-> << >>]
    /\ hook = [i \in Captures |-> NoHook]
    /\ tcp_in = [c \in Inbound |-> NoConn]
    /\ connect_task = [a \in Outbound |-> NoTask]
    /\ session = Empty
    /\ cancelled_notified = {}
    /\ ws_out = << >>

\* A writer that takes the newest message of its channel.
Newest(channel) == channel[Len(channel)]

\* msg_rx.recv() of the writer task: the oldest message of the channel.
Received(channel) == Head(channel)

\* send_tcp / send_tcp_split of the next message: one write_all of the
\* length prefix followed by the payload.
SendTcp ==
    /\ link.outbox # << >>
    /\ LET m == Received(link.outbox)
       IN  link' = [link EXCEPT !.outbox = Tail(@),
                                !.sent = Append(@, m),
                                !.writes = Append(@, Frame(m)),
                                !.wire = @ \o Frame(m)]
    /\ UNCHANGED << now, discovered_devices, pending_connections,
                    latest_connection_request, outgoing_request,
                    active_connections, is_capturing, should_stop, tcp_in,
                    connect_task, session, cancelled_notified, ws_out >>
    /\ UNCHANGED hook_vars
    /\ UNCHANGED locks
    /\ UNCHANGED datagrams
    /\ UNCHANGED bus

\* recv_tcp / recv_tcp_split: read_exact of the four length bytes, then
\* read_exact of that many bytes, then deserialize.
RecvTcp ==
    /\ Len(link.wire) >= 4
    /\ LET len == from_be_bytes(SubSeq(link.wire, 1, 4))
       IN  /\ Len(link.wire) >= 4 + len
           /\ link' = [link EXCEPT
                         !.wire = SubSeq(@, 5 + len, Len(@)),
                         !.inbox = Append(@, Deserialize(
                                              SubSeq(link.wire, 5, 4 + len)))]
    /\ UNCHANGED << now, discovered_devices, pending_connections,
                    latest_connection_request, outgoing_request,
                    active_connections, is_capturing, should_stop, tcp_in,
                    connect_task, session, cancelled_notified, ws_out >>
    /\ UNCHANGED hook_vars
    /\ UNCHANGED locks
    /\ UNCHANGED datagrams
    /\ UNCHANGED bus

\* -------------------------------------------------------- control bus
\* broadcast_tx.send(msg): the channel keeps the last BusCapacity messages.
Publish ==
    /\ bus.sent < MaxPublished
    /\ bus' = [bus EXCEPT !.sent = @ + 1]
    /\ UNCHANGED << now, discovered_devices, pending_connections,
                    latest_connection_request, outgoing_request,
                    active_connections, is_capturing, should_stop, tcp_in,
                    connect_task, session, cancelled_notified, link, ws_out >>
    /\ UNCHANGED hook_vars
    /\ UNCHANGED locks
    /\ UNCHANGED datagrams

\* The oldest message the channel still retains.
Oldest == IF bus.sent > BusCapacity THEN bus.sent - BusCapacity + 1 ELSE 1

\* What a receiver's loop does when recv() returns Err(Lagged): the main
\* loop's select! branch does not match and the loop goes round again; the
\* forwarder's `while let Ok(..)` ends.
SurvivesLag(r) == r = "ws_broadcast_rx"

\* recv() of receiver r returns: Err(Lagged) when the message it was to
\* read next is no longer retained, which moves it to the oldest retained
\* one; otherwise the next message.
BusRecv(r) ==
    /\ bus.rx[r].running
    /\ bus.rx[r].next <= bus.sent
    /\ IF bus.rx[r].next < Oldest
       THEN bus' = [bus EXCEPT !.rx[r].next = Oldest,
                               !.rx[r].running = SurvivesLag(r)]
       ELSE bus' = [bus EXCEPT !.rx[r].next = @ + 1,
                               !.rx[r].got = Append(@, bus.rx[r].next)]
    /\ UNCHANGED << now, discovered_devices, pending_connections,
                    latest_connection_request, outgoing_request,
                    active_connections, is_capturing, should_stop, tcp_in,
                    connect_task, session, cancelled_notified, link, ws_out >>
    /\ UNCHANGED hook_vars
    /\ UNCHANGED locks
    /\ UNCHANGED datagrams

\* ------------------------------------- a session's outbound direction
\* What the main loop puts on a session's channel: the messages of UI
\* sendInput events and of captured events.
OutboundMessages ==
    { MouseMove(1, 0), MouseMove(-1, 300), MouseClick(0, TRUE),
      MouseClick(0, FALSE), KeyPress(65, TRUE) }

\* A session just installed: an empty channel and a fresh stream.
InitOutbound == InitCodec /\ link = NoLink

\* sender.send(msg) of the main loop on the session's unbounded channel.
ChannelPush(m) ==
    /\ Len(link.enq) < MaxFrames
    /\ link' = [link EXCEPT !.enq = Append(@, m), !.outbox = Append(@, m)]
    /\ UNCHANGED << now, discovered_devices, pending_connections,
                    latest_connection_request, outgoing_request,
                    active_connections, is_capturing, should_stop, tcp_in,
                    connect_task, session, cancelled_notified, ws_out >>
    /\ UNCHANGED hook_vars
    /\ UNCHANGED locks
    /\ UNCHANGED datagrams
    /\ UNCHANGED bus

\* ------------------------------------- transport: reading off a socket
\* Where the bytes of one write may be cut by the network: inside the
\* length prefix, after it, inside the payload, or not at all.
Splits(frame) == { k \in {2, 4, 6, Len(frame)} : k <= Len(frame) }

\* A reader of a session on a fresh stream, of either role.
InitReader ==
    /\ bus = NoBus
    /\ locks = NoLocks
    /\ datagrams = NoDatagrams
    /\ link \in { [NoLink EXCEPT !.role = r] : r \in {"initiator", "acceptor"} }
    /\ now = 0
    /\ discovered_devices = Empty
    /\ pending_connections = Empty
    /\ latest_connection_request = None
    /\ outgoing_request = None
    /\ active_connections = Empty
    /\ is_capturing = FALSE
    /\ should_stop = [i \in Captures |-> FALSE]
    /\ input_rx = None
    /\ capture_queue = [i \in Captures |-> << >>]
    /\ hook = [i \in Captures |-> NoHook]
    /\ tcp_in = [c \in Inbound |-> NoConn]
    /\ connect_task = [a \in Outbound |-> NoTask]
    /\ session = Empty
    /\ cancelled_notified = {}
    /\ ws_out = << >>

\* The peer's send_tcp_split of m: the first k bytes of the frame arrive at
\* once, the rest later.
PeerWrites(m, k) ==
    /\ Len(link.writes) < MaxFrames
    /\ link.late = << >>
    /\ k \in Splits(Frame(m))
    /\ link' = [link EXCEPT
                  !.sent = Append(@, m),
                  !.writes = Append(@, Frame(m)),
                  !.wire = @ \o SubSeq(Frame(m), 1, k),
                  !.late = SubSeq(Frame(m), k + 1, Len(Frame(m)))]
    /\ UNCHANGED << now, discovered_devices, pending_connections,
                    latest_connection_request, outgoing_request,
                    active_connections, is_capturing, should_stop, tcp_in,
                    connect_task, session, cancelled_notified, ws_out >>
    /\ UNCHANGED hook_vars
    /\ UNCHANGED locks
    /\ UNCHANGED datagrams
    /\ UNCHANGED bus

\* A peer that is not this program writes four bytes declaring a payload
\* of n bytes.
PeerDeclares(n) ==
    /\ Len(link.writes) < MaxFrames
    /\ link.late = << >>
    /\ link' = [link EXCEPT
                  !.writes = Append(@, to_be_bytes(n)),
                  !.wire = @ \o to_be_bytes(n)]
    /\ UNCHANGED << now, discovered_devices, pending_connections,
                    latest_connection_request, outgoing_request,
                    active_connections, is_capturing, should_stop, tcp_in,
                    connect_task, session, cancelled_notified, ws_out >>
    /\ UNCHANGED hook_vars
    /\ UNCHANGED locks
    /\ UNCHANGED datagrams
    /\ UNCHANGED bus

\* The rest of a write arrives.
Arrive ==
    /\ link.late # << >>
    /\ link' = [link EXCEPT !.wire = @ \o link.late, !.late = << >>]
    /\ UNCHANGED << now, discovered_devices, pending_connections,
                    latest_connection_request, outgoing_request,
                    active_connections, is_capturing, should_stop, tcp_in,
                    connect_task, session, cancelled_notified, ws_out >>
    /\ UNCHANGED hook_vars
    /\ UNCHANGED locks
    /\ UNCHANGED datagrams
    /\ UNCHANGED bus

\* The declared lengths a foreign peer may send.
DeclaredLengths == { 64 * 1024 + 1 }

\* recv_tcp_split makes progress: the read_exact it is in takes the bytes
\* that have arrived, up to what it still wants.  A complete length prefix
\* allocates vec![0u8; len] and moves on to the payload; a complete payload
\* is deserialized, and an error ends the reader.
RecvRead ==
    /\ link.pc \in {"len", "data"}
    /\ link.wire # << >> \/ (link.pc = "data" /\ link.need = 0)
    /\ LET total == IF link.pc = "len" THEN 4 ELSE link.need
           want == total - Len(link.buf)
           n == IF want < Len(link.wire) THEN want ELSE Len(link.wire)
           got == link.buf \o SubSeq(link.wire, 1, n)
           rest == SubSeq(link.wire, n + 1, Len(link.wire))
       IN  link' =
             IF Len(got) < total
             THEN [link EXCEPT !.wire = rest, !.buf = got]
             ELSE IF link.pc = "len"
             THEN [link EXCEPT !.wire = rest, !.buf = << >>,
                               !.pc = "data",
                               !.need = from_be_bytes(got),
                               !.allocs = @ \cup {from_be_bytes(got)}]
             ELSE IF IsSome(Deserialize(got))
             THEN [link EXCEPT !.wire = rest, !.buf = << >>,
                               !.pc = "len", !.need = 0,
                               !.inbox = Append(@, Deserialize(got))]
             ELSE [link EXCEPT !.wire = rest, !.buf = << >>,
                               !.pc = "failed", !.need = 0]
    /\ UNCHANGED << now, discovered_devices, pending_connections,
                    latest_connection_request, outgoing_request,
                    active_connections, is_capturing, should_stop, tcp_in,
                    connect_task, session, cancelled_notified, ws_out >>
    /\ UNCHANGED hook_vars
    /\ UNCHANGED locks
    /\ UNCHANGED datagrams
    /\ UNCHANGED bus

\* The initiator's reader loop: the 1 s timeout fires while recv_tcp_split
\* waits for bytes; the future is dropped with what it had read, and the
\* loop calls recv_tcp_split again.
RecvTimeout ==
    /\ link.role = "initiator"
    /\ link.pc \in {"len", "data"}
    /\ link.wire = << >>
    /\ link' = [link EXCEPT !.pc = "len", !.buf = << >>, !.need = 0]
    /\ UNCHANGED << now, discovered_devices, pending_connections,
                    latest_connection_request, outgoing_request,
                    active_connections, is_capturing, should_stop, tcp_in,
                    connect_task, session, cancelled_notified, ws_out >>
    /\ UNCHANGED hook_vars
    /\ UNCHANGED locks
    /\ UNCHANGED datagrams
    /\ UNCHANGED bus

\* ---------------------------------------------------------- specification
SessionIds == { InSession(c) : c \in Inbound } \cup
              { OutSession(a) : a \in Outbound }

\* The controlled side: listener, handshake tasks, cleanup task and the
\* commands that resolve a pending request or clear the pending table.
\* The steps left out (connect tasks, session I/O) neither read nor write
\* pending_connections, latest_connection_request or the handshake state.
NextAcceptor ==
    \/ Tick
    \/ \E c \in Inbound, ip \in PeerIps : ListenerAccept(c, ip)
    \/ \E c \in Inbound : RemoteClose(c)
    \/ \E c \in Inbound : HandshakeConnectRequest(c)
    \/ \E c \in Inbound : HandshakePublish(c)
    \/ \E c \in Inbound : HandshakeUnexpected(c)
    \/ \E c \in Inbound : HandshakeError(c)
    \/ CleanupTick
    \/ GetLocalInfo
    \/ \E d \in UiDeviceIds : RejectConnection(d)
    \/ \E d \in UiDeviceIds : AcceptConnection(d)
    \/ Disconnect

SpecAcceptor == Init /\ [][NextAcceptor]_vars

\* The tasks of the controlled side run to their next await whenever they
\* can (tokio schedules every ready task), the interval of the cleanup task
\* keeps ticking and time passes.
FairSpecAcceptor ==
    /\ SpecAcceptor
    /\ WF_vars(Tick)
    /\ WF_vars(CleanupTick)
    /\ \A c \in Inbound : WF_vars(HandshakePublish(c))

\* The initiating side: requestConnection / cancelConnection, the connect
\* task, the session it installs, and the commands that tear it down.
NextInitiator ==
    \/ Tick
    \/ \E d \in UiDeviceIds : RequestConnection(d)
    \/ CancelConnection
    \/ \E a \in Outbound, sent \in BOOLEAN : ConnectEstablished(a, sent)
    \/ \E a \in Outbound, why \in {"connect-failed", "connect-timeout"} :
          ConnectFailed(a, why)
    \/ \E a \in Outbound : SelectCancel(a)
    \/ \E a \in Outbound : SelectAccepted(a)
    \/ \E a \in Outbound,
          why \in {"rejected", "protocol", "read-error", "timeout"} :
          SelectFailed(a, why)
    \/ \E a \in Outbound : RemoteCloseOut(a)
    \/ \E ev \in UiEvents : SendInput(ev)
    \/ \E s \in SessionIds : WriterSend(s)
    \/ \E s \in SessionIds : WriterSendFailed(s)
    \/ \E s \in SessionIds : WriterChannelClosed(s)
    \/ \E a \in Outbound, m \in PeerFrames : InitiatorRecv(a, m)
    \/ \E a \in Outbound : InitiatorReaderFailed(a)
    \/ Disconnect
    \/ StartCapture
    \/ StopCapture

SpecInitiator == Init /\ [][NextInitiator]_vars

\* A controlling host with capture: it requests a session, starts and stops
\* capture, the OS feeds events to the hooks, and the main loop forwards what
\* the hook sends and handles the exit request.
NextCapture ==
    \/ \E d \in UiDeviceIds : RequestConnection(d)
    \/ \E a \in Outbound : ConnectEstablished(a, TRUE)
    \/ \E a \in Outbound : SelectAccepted(a)
    \/ StartCapture
    \/ StopCapture
    \/ Disconnect
    \/ \E i \in Captures, e \in HookEvents : HookEvent(i, e)
    \/ CapturedInput
    \/ \E ev \in UiMoves : SendInput(ev)
    \/ ExitRequested
    \/ \E s \in SessionIds : WriterSend(s)
    \/ \E s \in SessionIds : WriterChannelClosed(s)
    \/ \E a \in Outbound : RemoteCloseOut(a)
    \/ \E a \in Outbound : InitiatorReaderFailed(a)

SpecCapture == Init /\ [][NextCapture]_vars

\* The main loop and the spawned tasks of this host are scheduled; what the
\* OS, the UI and the peer do is not.
FairSpecCapture ==
    /\ SpecCapture
    /\ WF_vars(CapturedInput)
    /\ WF_vars(ExitRequested)
    /\ \A s \in SessionIds : WF_vars(WriterSend(s))
    /\ \A s \in SessionIds : WF_vars(WriterChannelClosed(s))
    /\ \A a \in Outbound : WF_vars(InitiatorReaderFailed(a))

\* Discovery: announces arrive, time passes, the UI asks for the peer list.
NextDiscovery ==
    \/ \E d \in Waits : Elapse(d)
    \/ \E ann \in Announces : DiscoveryEvent(ann)
    \/ StartDiscovery

SpecDiscovery == Init /\ [][NextDiscovery]_vars

\* The codec: a sender writes its messages to a stream, a receiver reads
\* them off it.
NextCodec ==
    \/ SendTcp
    \/ RecvTcp

SpecCodec == InitCodec /\ [][NextCodec]_vars

\* Sessions of both roles from their installation to their end: input is
\* sent and received, the peer closes, either half fails.
NextSessions ==
    \/ \E c \in Inbound, ip \in PeerIps : ListenerAccept(c, ip)
    \/ \E c \in Inbound : HandshakeConnectRequest(c)
    \/ \E c \in Inbound : HandshakePublish(c)
    \/ \E d \in UiDeviceIds : AcceptConnection(d)
    \/ \E c \in Inbound : RemoteClose(c)
    \/ \E d \in UiDeviceIds : RequestConnection(d)
    \/ \E a \in Outbound : ConnectEstablished(a, TRUE)
    \/ \E a \in Outbound : SelectAccepted(a)
    \/ \E a \in Outbound : RemoteCloseOut(a)
    \/ SendInput(UiEvent("mousedown", None, None, Some("button1")))
    \/ \E s \in SessionIds : WriterSend(s)
    \/ \E s \in SessionIds : WriterSendFailed(s)
    \/ \E c \in Inbound, m \in PeerFrames : AcceptorRecv(c, m)
    \/ \E c \in Inbound : AcceptorReaderFailed(c)
    \/ \E a \in Outbound, m \in PeerFrames : InitiatorRecv(a, m)
    \/ \E a \in Outbound : InitiatorReaderFailed(a)

SpecSessions == Init /\ [][NextSessions]_vars

\* ------------------------------------------------ the mutexes at work
other_vars ==
    << now, discovered_devices, pending_connections,
       latest_connection_request, outgoing_request, active_connections,
       is_capturing, should_stop, input_rx, capture_queue, hook, tcp_in,
       connect_task, session, cancelled_notified, link, bus, datagrams,
       ws_out >>

\* The mutexes some task holds.
HeldBy(tasks) == UNION { locks[t].held : t \in tasks }

\* A task starts a handler.
Begin(t, p) ==
    /\ locks[t].prog = << >>
    /\ locks' = [locks EXCEPT ![t].prog = p]
    /\ UNCHANGED other_vars

\* m.lock().await completes once no guard of m is alive.
Acquire(t) ==
    /\ locks[t].prog # << >>
    /\ Head(locks[t].prog).op = "lock"
    /\ Head(locks[t].prog).m \notin HeldBy(Tasks)
    /\ locks' = [locks EXCEPT ![t].prog = Tail(@),
                              ![t].held = @ \cup {Head(locks[t].prog).m}]
    /\ UNCHANGED other_vars

\* A guard goes out of scope.
Release(t) ==
    /\ locks[t].prog # << >>
    /\ Head(locks[t].prog).op = "unlock"
    /\ locks' = [locks EXCEPT ![t].prog = Tail(@),
                              ![t].held = @ \ {Head(locks[t].prog).m}]
    /\ UNCHANGED other_vars

\* send_tcp / recv_tcp completes.
TcpIo(t) ==
    /\ locks[t].prog # << >>
    /\ Head(locks[t].prog).op \in {"send_tcp", "recv_tcp"}
    /\ locks' = [locks EXCEPT ![t].prog = Tail(@)]
    /\ UNCHANGED other_vars

NextLocks ==
    \/ \E t \in Tasks : \E p \in Programs(t) : Begin(t, p)
    \/ \E t \in Tasks : Acquire(t)
    \/ \E t \in Tasks : Release(t)
    \/ \E t \in Tasks : TcpIo(t)

SpecLocks == Init /\ [][NextLocks]_vars

\* ------------------------------------------------ datagrams reordered
\* Discovery datagrams as the handler sees them: the announce and the
\* source address it came from; device-b is also heard from a second address.
Datagrams ==
    Announces \cup { [id |-> "device-b", name |-> "B", ip |-> "ip-c"] }

\* Batches of up to MaxDatagrams datagrams, each in two orders.
Batches ==
    UNION { { << p, [i \in 1..n |-> p[sigma[i]]] >> :
                p \in [1..n -> Datagrams], sigma \in Permutations(1..n) }
            : n \in 1..MaxDatagrams }

InitReorder ==
    /\ link = NoLink
    /\ bus = NoBus
    /\ locks = NoLocks
    /\ datagrams \in { [NoDatagrams EXCEPT !.todo = b] : b \in Batches }
    /\ now = 0
    /\ discovered_devices = Empty
    /\ pending_connections = Empty
    /\ latest_connection_request = None
    /\ outgoing_request = None
    /\ active_connections = Empty
    /\ is_capturing = FALSE
    /\ should_stop = [i \in Captures |-> FALSE]
    /\ input_rx = None
    /\ capture_queue = [i \in Captures |-> << >>]
    /\ hook = [i \in Captures |-> NoHook]
    /\ tcp_in = [c \in Inbound |-> NoConn]
    /\ connect_task = [a \in Outbound |-> NoTask]
    /\ session = Empty
    /\ cancelled_notified = {}
    /\ ws_out = << >>

\* Run r of the handler takes the next datagram of its order.
Process(r) ==
    /\ datagrams.todo[r] # << >>
    /\ datagrams' =
          [datagrams EXCEPT
             !.todo[r] = Tail(@),
             !.table[r] = Upsert(@, Head(datagrams.todo[r]), now)]
    /\ UNCHANGED << now, discovered_devices, pending_connections,
                    latest_connection_request, outgoing_request,
                    active_connections, is_capturing, should_stop, tcp_in,
                    connect_task, session, cancelled_notified, link, bus,
                    locks, ws_out >>
    /\ UNCHANGED hook_vars

NextReorder == \E r \in 1..2 : Process(r)

SpecReorder == InitReorder /\ [][NextReorder]_vars

\* ------------------------------------------------ a request repeated
\* The connect tasks of a UI that asks again before the first attempt ended.
Attempts == 1..MaxAttempts

InitRetry ==
    /\ link = NoLink
    /\ bus = NoBus
    /\ locks = NoLocks
    /\ datagrams = NoDatagrams
    /\ now = 0
    /\ discovered_devices \in InitialTables
    /\ pending_connections = Empty
    /\ latest_connection_request = None
    /\ outgoing_request = None
    /\ active_connections = Empty
    /\ is_capturing = FALSE
    /\ should_stop = [i \in Captures |-> FALSE]
    /\ input_rx = None
    /\ capture_queue = [i \in Captures |-> << >>]
    /\ hook = [i \in Captures |-> NoHook]
    /\ tcp_in = [c \in Inbound |-> NoConn]
    /\ connect_task = [a \in Attempts |-> NoTask]
    /\ session = Empty
    /\ cancelled_notified = {}
    /\ ws_out = << >>

NextRetry ==
    \/ Tick
    \/ \E d \in UiDeviceIds : RequestConnection(d)
    \/ CancelConnection
    \/ \E a \in Attempts, sent \in BOOLEAN : ConnectEstablished(a, sent)
    \/ \E a \in Attempts, why \in {"connect-failed", "connect-timeout"} :
          ConnectFailed(a, why)
    \/ \E a \in Attempts : SelectCancel(a)
    \/ \E a \in Attempts : SelectAccepted(a)
    \/ \E a \in Attempts,
          why \in {"rejected", "protocol", "read-error", "timeout"} :
          SelectFailed(a, why)

SpecRetry == InitRetry /\ [][NextRetry]_vars

\* The controlled host: requests are accepted, the peer's input arrives,
\* the UI disconnects.
NextTeardown ==
    \/ \E c \in Inbound, ip \in PeerIps : ListenerAccept(c, ip)
    \/ \E c \in Inbound : HandshakeConnectRequest(c)
    \/ \E c \in Inbound : HandshakePublish(c)
    \/ \E d \in UiDeviceIds : AcceptConnection(d)
    \/ \E ev \in UiEvents : SendInput(ev)
    \/ \E s \in SessionIds : WriterSend(s)
    \/ \E s \in SessionIds : WriterChannelClosed(s)
    \/ \E c \in Inbound, m \in PeerFrames : AcceptorRecv(c, m)
    \/ Disconnect

SpecTeardown == Init /\ [][NextTeardown]_vars

\* The control bus: publishers send, each receiver reads at its own pace.
NextBus ==
    \/ Publish
    \/ \E r \in Receivers : BusRecv(r)

SpecBus == Init /\ [][NextBus]_vars

\* A session's outbound direction: the main loop fills the channel, the
\* writer task empties it onto the stream, the peer reads the stream.
NextOutbound ==
    \/ \E m \in OutboundMessages : ChannelPush(m)
    \/ SendTcp
    \/ RecvTcp

SpecOutbound == InitOutbound /\ [][NextOutbound]_vars

\* A session's inbound direction, byte by byte: the peer writes frames, the
\* network delivers them whole or in two parts, the reader takes them off
\* the socket.
NextReader ==
    \/ \E m \in PeerFrames, k \in 1..16 : PeerWrites(m, k)
    \/ \E n \in DeclaredLengths : PeerDeclares(n)
    \/ Arrive
    \/ RecvRead
    \/ RecvTimeout

SpecReader == InitReader /\ [][NextReader]_vars

\* Both roles of the handshake on one host: it answers the requests of its
\* peers and issues requests of its own, then exchanges input over the
\* sessions that result.
NextPairing ==
    \/ Tick
    \/ \E c \in Inbound, ip \in PeerIps : ListenerAccept(c, ip)
    \/ \E c \in Inbound : HandshakeConnectRequest(c)
    \/ \E c \in Inbound : HandshakePublish(c)
    \/ CleanupTick
    \/ \E d \in UiDeviceIds : RejectConnection(d)
    \/ \E d \in UiDeviceIds : AcceptConnection(d)
    \/ \E d \in UiDeviceIds : RequestConnection(d)
    \/ \E a \in Outbound, sent \in BOOLEAN : ConnectEstablished(a, sent)
    \/ \E a \in Outbound : SelectAccepted(a)
    \/ \E a \in Outbound,
          why \in {"rejected", "protocol", "read-error", "timeout"} :
          SelectFailed(a, why)
    \/ \E ev \in UiEvents : SendInput(ev)
    \/ \E s \in SessionIds : WriterSend(s)
    \/ \E c \in Inbound, m \in PeerFrames : AcceptorRecv(c, m)

SpecPairing == Init /\ [][NextPairing]_vars

\* Requests nobody answers: the UI of this host never accepts or rejects the
\* requests of its peers, and the peers never answer the requests of this
\* host.  Only time, the cleanup task and the timeout of the connect task
\* resolve them; the cleanup interval and the timers are driven by the
\* runtime, so these steps are taken whenever they stay enabled.
NextUnanswered ==
    \/ Tick
    \/ \E c \in Inbound, ip \in PeerIps : ListenerAccept(c, ip)
    \/ \E c \in Inbound : HandshakeConnectRequest(c)
    \/ \E c \in Inbound : HandshakePublish(c)
    \/ CleanupTick
    \/ \E d \in UiDeviceIds : RequestConnection(d)
    \/ \E a \in Outbound : ConnectEstablished(a, TRUE)
    \/ \E a \in Outbound : SelectFailed(a, "timeout")

FairSpecUnanswered ==
    /\ Init /\ [][NextUnanswered]_vars
    /\ WF_vars(Tick)
    /\ WF_vars(CleanupTick)
    /\ \A a \in Outbound : WF_vars(SelectFailed(a, "timeout"))

\* -------------------------------------------------------------- properties
Range(seq) == { seq[i] : i \in DOMAIN seq }

\* C1: whenever a session exists (active_connections is non-empty) there is
\* no outgoing request record and the pending table is empty.
SessionExcludesRequests ==
    active_connections # Empty =>
        /\ outgoing_request = None
        /\ pending_connections = Empty

\* C2: the pending table never holds more than one record.
AtMostOnePending == Cardinality(DOMAIN pending_connections) <= 1

\* A second handshake has replaced the record of a first one: the first
\* stream was answered and dropped, the second is the one pending.
SupersededAndPending ==
    \E c1, c2 \in Inbound :
        /\ tcp_in[c1].superseded
        /\ tcp_in[c2].stream = "pending"
        /\ AddrOf(c2) \in DOMAIN pending_connections

\* C3: active_connections never holds more than one session.
AtMostOneSession == Cardinality(DOMAIN active_connections) <= 1

\* C4: an inbound connection that sent its ConnectRequest has received exactly
\* one ConnectResponse by the time this host has closed its socket, and never
\* more than one.
OneResponseBeforeClose ==
    \A c \in Inbound :
        tcp_in[c].first = "ConnectRequest" =>
            /\ Len(tcp_in[c].responses) <= 1
            /\ tcp_in[c].stream = "closed" => Len(tcp_in[c].responses) = 1

\* Inbound connection c has been sent ConnectResponse{success: true}.
PositiveResponse(c) == TRUE \in Range(tcp_in[c].responses)

\* C5: a positive ConnectResponse is sent on an inbound connection, and its
\* session is inserted, only by the step that handles an acceptConnection
\* whose targetDeviceId is the device id of that connection's pending record.
ConsentOnly ==
    [][ \A c \in Inbound :
          ( \/ ~PositiveResponse(c) /\ PositiveResponse(c)'
            \/ /\ InSession(c) \notin Registered(active_connections)
               /\ InSession(c) \in Registered(active_connections') )
          => \E d \in UiDeviceIds :
               /\ AcceptConnection(d)
               /\ AddrOf(c) \in DOMAIN pending_connections
               /\ pending_connections[AddrOf(c)].stream = c
               /\ pending_connections[AddrOf(c)].device.id = d ]_vars

\* An inbound session was just established by an accept naming its device,
\* while the table knows a second device whose id did not match.
AcceptedByConsent ==
    \E c \in Inbound :
        /\ PositiveResponse(c)
        /\ tcp_in[c].stream = "session"
        /\ ws_out = << ConnectionEstablished(Unwrap(tcp_in[c].device).id) >>
        /\ Cardinality(DOMAIN discovered_devices) = 2

\* C6: input capture is on only while a session exists.
CaptureOnlyInSession == is_capturing => active_connections # Empty

\* One of the I/O tasks of session s has ended.
TornDown(s) == session[s].writer = "done" \/ session[s].reader = "done"

\* C7: a session's teardown broadcasts Disconnected exactly once, never
\* twice, and leaves the session's sender out of active_connections.
DisconnectedOnce ==
    \A s \in DOMAIN session :
        /\ session[s].disconnected <= 1
        /\ TornDown(s) =>
              /\ session[s].disconnected = 1
              /\ s \notin Registered(active_connections)

\* Inbound connection c is held in the pending table.
IsPending(c) ==
    /\ AddrOf(c) \in DOMAIN pending_connections
    /\ pending_connections[AddrOf(c)].stream = c

\* C8: when the peer closes a connection whose request is pending, the
\* record is eventually removed and ConnectionRequestCancelled is broadcast
\* for its device.
CancelledOnRemoteClose ==
    \A c \in Inbound, d \in UiDeviceIds :
        ( /\ IsPending(c)
          /\ pending_connections[AddrOf(c)].device.id = d
          /\ tcp_in[c].peer_closed )
            ~> (~IsPending(c) /\ d \in cancelled_notified)

\* C9: once cancelConnection has signalled a connect task, that task never
\* establishes its session.
CancelPreventsSession ==
    \A a \in Outbound :
        connect_task[a].cancel = "sent" =>
            /\ connect_task[a].outcome # "established"
            /\ OutSession(a) \notin Registered(active_connections)

\* C10: once the superseding handshake has run to its end, the superseded
\* connection has received exactly ConnectResponse{success: false}, is no
\* longer pending, the pending table holds one record, and
\* ConnectionRequestCancelled was delivered for the superseded device and
\* for no other.
SupersessionNotifiesUi ==
    \A c \in Inbound :
        (tcp_in[c].superseded /\ \A x \in Inbound : tcp_in[x].pc # "publish")
        => /\ tcp_in[c].responses = << FALSE >>
           /\ ~IsPending(c)
           /\ Cardinality(DOMAIN pending_connections) <= 1
           /\ cancelled_notified = { Unwrap(tcp_in[c].device).id }

\* Inbound connection c is pending with a request of device d.
PendingOf(c, d) ==
    IsPending(c) /\ pending_connections[AddrOf(c)].device.id = d

\* C11: a rejectConnection naming the pending device answers the pending
\* stream with ConnectResponse{success: false} and removes the record; a
\* connect task that reads ConnectResponse{success: false} clears the
\* outgoing record and broadcasts ConnectionFailed for its target with the
\* rejected reason; neither step adds an entry to active_connections.
RejectionResolves ==
    [][ /\ \A d \in UiDeviceIds, c \in Inbound :
             (PendingOf(c, d) /\ RejectConnection(d))
             => /\ tcp_in'[c].responses = Append(tcp_in[c].responses, FALSE)
                /\ tcp_in'[c].stream = "closed"
                /\ pending_connections' = Empty
                /\ active_connections' = active_connections
        /\ \A a \in Outbound :
             SelectFailed(a, "rejected")
             => /\ outgoing_request' = None
                /\ ws_out' = << ConnectionFailed(connect_task[a].target,
                                                 "rejected") >>
                /\ connect_task'[a].pc = "done"
                /\ active_connections' = active_connections ]_vars

\* A request of a peer was rejected by the UI before it could expire, and a
\* request of this host has just been rejected by its peer.
RejectedBothWays ==
    /\ \E c \in Inbound :
          /\ tcp_in[c].responses = << FALSE >>
          /\ IsSome(tcp_in[c].device)
          /\ ~tcp_in[c].superseded
          /\ now = 0
    /\ \E a \in Outbound :
          /\ connect_task[a].outcome = "failed"
          /\ ws_out = << ConnectionFailed(connect_task[a].target,
                                          "rejected") >>

\* The clock of a run still reaches the expiry of a pending request stamped
\* t, and the timeout of a handshake wait started at t.
ExpiryWithinRun(t) == (Horizon - t) \div Resolution > PendingTimeoutSecs
TimeoutWithinRun(t) == (Horizon - t) \div Resolution >= HandshakeTimeoutSecs

HappyPath ==
    [][ /\ \A d \in UiDeviceIds, c \in Inbound :
             (PendingOf(c, d) /\ ~tcp_in[c].peer_closed /\ AcceptConnection(d))
             => /\ tcp_in'[c].responses = Append(tcp_in[c].responses, TRUE)
                /\ pending_connections' = Empty
                /\ active_connections' =
                      Put(active_connections, AddrOf(c), InSession(c))
                /\ active_connections = Empty =>
                      Cardinality(DOMAIN active_connections') = 1
                /\ ws_out' = << ConnectionEstablished(d) >>
        /\ \A a \in Outbound :
             SelectAccepted(a)
             => /\ outgoing_request' = None
                /\ active_connections' =
                      Put(active_connections, ConnKey(connect_task[a].ip),
                          OutSession(a))
                /\ active_connections = Empty =>
                      Cardinality(DOMAIN active_connections') = 1
                /\ ws_out' = << ConnectionEstablished(connect_task[a].target) >>
        /\ \A ev \in UiEvents :
             (ev.event_type = "mousedown" /\ SendInput(ev))
             => \A s \in Registered(active_connections) :
                  session[s].writer = "run"
                  => /\ Len(session'[s].queue) = Len(session[s].queue) + 1
                     /\ Echo(session'[s].queue[Len(session'[s].queue)])
                           = << RemoteInput("mousedown", Unwrap(ev.key)) >>
        /\ \A c \in Inbound, m \in PeerFrames :
             (m.type = "MouseClick" /\ m.state /\ AcceptorRecv(c, m))
             => ws_out' = << RemoteInput("mousedown", ButtonName(m.button)) >>
      ]_vars

\* Both sessions are up with no request record left, this host has a
\* right-button press queued for its peers, and has just reported a
\* right-button press of a peer.
PairedAndClicking ==
    /\ \E c \in Inbound : tcp_in[c].stream = "session"
    /\ \E a \in Outbound :
          /\ connect_task[a].outcome = "established"
          /\ session[OutSession(a)].queue = << MouseClick(1, TRUE) >>
    /\ outgoing_request = None
    /\ pending_connections = Empty
    /\ ws_out = << RemoteInput("mousedown", "button1") >>

\* The Q key press.
PressQ == [type |-> "KeyPress", key |-> "KeyQ"]

\* The peer of session s sees the session end: both halves of the split
\* stream are dropped, which closes the socket (no Disconnect frame is ever
\* written).
PeerSeesEnd(s) ==
    /\ s \in DOMAIN session
    /\ session[s].writer = "done"
    /\ session[s].reader = "done"

\* C14: escape hatch.  With Control and Alt held, the live hook passes the Q
\* press through, raises its stop flag and posts the exit request; handling
\* the request while capturing turns capture off, removes every session and
\* broadcasts Disconnected; and the peer of a session that was up when the
\* exit request was posted eventually sees the session end.
EscapeHatch ==
    /\ [][ /\ \A i \in Captures :
                ( /\ ~should_stop[i]
                  /\ ExitShortcut(hook[i], PressQ)
                  /\ HookEvent(i, PressQ) )
                => /\ Verdict(i, PressQ) = "pass"
                   /\ should_stop'[i]
                   /\ input_rx = Some(i) =>
                         capture_queue'[i] =
                            Append(capture_queue[i], ControlExit)
           /\ (is_capturing /\ ExitRequested)
                => /\ ~is_capturing'
                   /\ active_connections' = Empty
                   /\ ws_out' = << Disconnected >> ]_vars
    /\ \A a \in Outbound, i \in Captures :
          ( /\ is_capturing
            /\ input_rx = Some(i)
            /\ capture_queue[i] = << ControlExit >>
            /\ OutSession(a) \in Registered(active_connections) )
             ~> PeerSeesEnd(OutSession(a))

\* C15: a requestConnection naming a device absent from the peer table
\* broadcasts ConnectionFailed for that id, starts no connect task, and
\* leaves no outgoing-request record installed.
UnknownTargetLeavesIdle ==
    [][ \A d \in UiDeviceIds :
          (d \notin DOMAIN discovered_devices /\ RequestConnection(d))
          => /\ ws_out' = << ConnectionFailed(d, "not-found") >>
             /\ \A a \in Outbound : connect_task'[a].pc = connect_task[a].pc
             /\ outgoing_request' = None ]_vars

\* C16: idempotence.  stopCapture while not capturing, disconnect with no
\* session and no pending request, and cancelConnection with no outgoing
\* request each leave every state variable as it was and broadcast nothing.
IdleCommandsAreNoOps ==
    [][ /\ (~is_capturing /\ StopCapture)
           => /\ ws_out' = << >>
              /\ UNCHANGED << discovered_devices, pending_connections,
                              latest_connection_request, outgoing_request,
                              active_connections, is_capturing, should_stop,
                              hook_vars, tcp_in, connect_task, session >>
        /\ ( /\ active_connections = Empty
             /\ pending_connections = Empty
             /\ Disconnect )
           => /\ ws_out' = << >>
              /\ UNCHANGED << discovered_devices, pending_connections,
                              latest_connection_request, outgoing_request,
                              active_connections, tcp_in, connect_task,
                              session >>
        /\ (outgoing_request = None /\ CancelConnection)
           => /\ ws_out' = << >>
              /\ UNCHANGED << discovered_devices, pending_connections,
                              latest_connection_request, outgoing_request,
                              active_connections, is_capturing, should_stop,
                              hook_vars, tcp_in, connect_task, session >>
      ]_vars

\* C17: a stopCapture, a disconnect or the handling of an exit request that
\* stops capture raises the stop flag of the hook that was capturing, and
\* every event delivered afterwards to a hook whose capture was stopped is
\* passed through and puts nothing on the channel to the main loop.
StopReleasesHook ==
    [][ /\ \A i \in Captures :
             ( /\ is_capturing
               /\ input_rx = Some(i)
               /\ (StopCapture \/ Disconnect \/ ExitRequested) )
             => should_stop'[i]
        /\ \A i \in Captures, e \in HookEvents :
             ( /\ hook[i].installed
               /\ input_rx # Some(i)
               /\ HookEvent(i, e) )
             => /\ Verdict(i, e) = "pass"
                /\ capture_queue' = capture_queue ]_vars

\* The entries of the peer table last refreshed more than StaleSecs ago;
\* last_seen is the instant of the last announce received from the id.
Stale(devices) ==
    { id \in DOMAIN devices :
        now - devices[id].last_seen > StaleSecs * Resolution }

\* C18: at every instant the peer table has as many entries as there are
\* ids, other than the local one, that announced within the last 10 s; and
\* an announce carrying the local id leaves the table as it was.
TableCountsRecentPeers ==
    /\ [](Cardinality(DOMAIN discovered_devices) =
             Cardinality({ id \in DOMAIN discovered_devices \ Stale(discovered_devices) :
                             id # LocalDeviceId }))
    /\ [][ \A ann \in Announces :
             (ann.id = LocalDeviceId /\ DiscoveryEvent(ann))
             => UNCHANGED discovered_devices ]_vars

\* C19: a startDiscovery removes every entry last seen more than 10 s ago,
\* keeps the others, and broadcasts DeviceFound once for each entry that
\* remains and for nothing else.
StartDiscoveryPrunesAndLists ==
    [][ StartDiscovery
        => /\ DOMAIN discovered_devices' =
                 DOMAIN discovered_devices \ Stale(discovered_devices)
           /\ Len(ws_out') = Cardinality(DOMAIN discovered_devices')
           /\ { ws_out'[i] : i \in 1..Len(ws_out') } =
                 { DeviceFound(discovered_devices[id].device) :
                     id \in DOMAIN discovered_devices \ Stale(discovered_devices) }
      ]_vars

\* The sequences joined end to end.
RECURSIVE Concat(_)
Concat(seqs) == IF seqs = << >> THEN << >> ELSE Head(seqs) \o Concat(Tail(seqs))

\* C20: codec round trip.  Deserializing what serialize produced for a
\* message yields that message; every message sent went out as one buffer
\* whose first four bytes are the big-endian length of the rest; the stream
\* carries those buffers end to end; and what has been received is, in
\* order, what was sent first.
CodecRoundTrip ==
    /\ \A m \in Messages : Deserialize(Serialize(m)) = Some(m)
    /\ Len(link.writes) = Len(link.sent)
    /\ \A i \in 1..Len(link.writes) :
          LET w == link.writes[i]
          IN  /\ Len(w) >= 4
              /\ ((w[1] * 256 + w[2]) * 256 + w[3]) * 256 + w[4] = Len(w) - 4
              /\ SubSeq(w, 5, Len(w)) = Serialize(link.sent[i])
    /\ link.wire =
          Concat(SubSeq(link.writes, Len(link.inbox) + 1, Len(link.writes)))
    /\ Len(link.inbox) <= Len(link.sent)
    /\ \A i \in 1..Len(link.inbox) : link.inbox[i] = Some(link.sent[i])

\* Two different messages were written back to back, one moving the pointer
\* by negative amounts, and both have been read.
BothFramesRead ==
    /\ link.outbox = << >>
    /\ link.wire = << >>
    /\ Len(link.inbox) = 2
    /\ link.inbox[1] = Some(MouseMove(-1, 300))
    /\ link.inbox[2] = Some(Discovery(<< 98 >>, << 195, 169 >>, 8080))

\* C21: the reader never allocates a payload buffer for a declared length
\* above 64 KiB, and never goes on to read such a payload.
OversizeRejected ==
    /\ \A n \in link.allocs : n <= 64 * 1024
    /\ link.pc = "data" => link.need <= 64 * 1024

\* The bytes of the writes from the i-th on, end to end.
WrittenFrom(i) == Concat(SubSeq(link.writes, i, Len(link.writes)))

\* What the reader has taken off the socket for the frame it is reading.
Taken ==
    IF link.pc = "data" THEN to_be_bytes(link.need) \o link.buf ELSE link.buf

\* C24: while the peer writes only frames of this protocol, the reader of
\* either role delivers what the peer wrote in wire order, and every byte
\* of the frames not yet delivered is still in the reader's hands, on the
\* socket or under way: no part of a frame is dropped, also when the
\* initiator's 1 s timeout fires on a frame that was read in part.
InboundInOrder ==
    Len(link.writes) = Len(link.sent)
    => /\ link.pc # "failed"
       /\ Len(link.inbox) <= Len(link.sent)
       /\ \A i \in 1..Len(link.inbox) : link.inbox[i] = Some(link.sent[i])
       /\ Taken \o link.wire \o link.late = WrittenFrom(Len(link.inbox) + 1)

\* C22: no session's outbound channel ever holds a MouseMove with x = 0 and
\* y = 0, whether the move was captured by the hook or sent by the UI, and
\* whether its delta was zero or less than a pixel.
NoZeroMouseMove ==
    \A s \in DOMAIN session :
        \A i \in 1..Len(session[s].queue) :
            session[s].queue[i] # MouseMove(0, 0)

\* A session holds the one-pixel move left of a captured move of 1.5 px,
\* while a captured move of half a pixel waits for the main loop.
TruncatedMoveQueued ==
    /\ \E s \in Registered(active_connections) :
          session[s].queue = << MouseMove(1, 0) >>
    /\ \E i \in Captures :
          /\ input_rx = Some(i)
          /\ capture_queue[i] =
                << ControlInput(InputEventData("mousemove", None, None,
                                               Some(5), Some(-5))) >>

\* C23: what a session's writer has written to the stream is, frame by
\* frame and in order, the messages first put on the session's channel;
\* the channel holds exactly the later ones in order, so none is skipped
\* or written twice; and the peer reads them in that order.
OutboundInOrder ==
    /\ Len(link.sent) <= Len(link.enq)
    /\ link.sent = SubSeq(link.enq, 1, Len(link.sent))
    /\ link.outbox = SubSeq(link.enq, Len(link.sent) + 1, Len(link.enq))
    /\ link.writes = [i \in 1..Len(link.sent) |-> Frame(link.enq[i])]
    /\ \A i \in 1..Len(link.inbox) : link.inbox[i] = Some(link.enq[i])

\* Two different messages were on the channel together, and both have
\* been written.
BothWrittenInOrder ==
    /\ link.enq = << MouseClick(0, TRUE), MouseMove(-1, 300) >>
    /\ link.sent = link.enq
    /\ link.inbox = << >>
    /\ link.wire = Frame(MouseClick(0, TRUE)) \o Frame(MouseMove(-1, 300))

\* C25: a receiver of the control bus that falls behind loses only the
\* oldest messages: it never stops for good, it reads messages in the order
\* they were published, and once it has read one it skips none of those
\* the channel still retained when it came to them.
LagLosesOnlyOldest ==
    \A r \in Receivers :
        /\ bus.rx[r].running
        /\ \A i \in 1..Len(bus.rx[r].got) - 1 :
              bus.rx[r].got[i] < bus.rx[r].got[i + 1]
        /\ bus.rx[r].next >= Oldest =>
              \A n \in Oldest..(bus.rx[r].next - 1) :
                  \E i \in 1..Len(bus.rx[r].got) : bus.rx[r].got[i] = n

\* C26: a getLocalInfo handled while a request is pending and has been
\* announced broadcasts LocalInfo followed by ConnectionRequest for the
\* device of that request, whatever commands were handled in between.
PendingReannounced ==
    [][ \A c \in Inbound :
          ( /\ IsPending(c)
            /\ tcp_in[c].pc = "done"
            /\ GetLocalInfo )
          => ws_out' = << LocalInfo,
                          ConnectionRequest(
                            pending_connections[AddrOf(c)].device) >> ]_vars

\* C27: when the writer of a session fails to send, or its reader fails to
\* receive, on either role, the step removes the session's entry from
\* active_connections and broadcasts Disconnected.
HalfFailureTearsDown ==
    [][ /\ \A s \in SessionIds :
             WriterSendFailed(s)
             => /\ s \notin Registered(active_connections')
                /\ ws_out' = << Disconnected >>
        /\ \A a \in Outbound :
             InitiatorReaderFailed(a)
             => /\ OutSession(a) \notin Registered(active_connections')
                /\ ws_out' = << Disconnected >>
        /\ \A c \in Inbound :
             AcceptorReaderFailed(c)
             => /\ InSession(c) \notin Registered(active_connections')
                /\ ws_out' = << Disconnected >> ]_vars

\* C28: a Disconnect frame received on a session, on either role, ends the
\* session in that step: its entry leaves active_connections, Disconnected
\* is broadcast and the reader stops, so no later frame is replayed.
DisconnectFrameEndsSession ==
    [][ /\ \A c \in Inbound :
             AcceptorRecv(c, DisconnectFrame)
             => /\ InSession(c) \notin Registered(active_connections')
                /\ ws_out' = << Disconnected >>
                /\ session'[InSession(c)].reader = "done"
        /\ \A a \in Outbound :
             InitiatorRecv(a, DisconnectFrame)
             => /\ OutSession(a) \notin Registered(active_connections')
                /\ ws_out' = << Disconnected >>
                /\ session'[OutSession(a)].reader = "done" ]_vars

\* C29: a task that is about to await the TCP stream or the lock of a shared
\* mutex holds none of the shared mutexes.
NoLockAcrossAwait ==
    \A t \in Tasks :
        ( /\ locks[t].prog # << >>
          /\ Head(locks[t].prog).op \in {"lock", "send_tcp", "recv_tcp"} )
        => locks[t].held = {}

\* C30: whichever way the connect task of an outgoing request fails (the
\* ConnectRequest cannot be sent, the TCP connect fails or times out, the
\* answer is a refusal, an unexpected message, a read error or the 30 s
\* timeout), the step leaves outgoing_request empty and broadcasts exactly
\* one ConnectionFailed naming the target.
AttemptFails(a) ==
    \/ ConnectEstablished(a, FALSE)
    \/ \E why \in {"connect-failed", "connect-timeout"} : ConnectFailed(a, why)
    \/ \E why \in {"rejected", "protocol", "read-error", "timeout"} :
          SelectFailed(a, why)

EveryFailureReturnsToIdle ==
    [][ \A a \in Outbound :
          AttemptFails(a)
          => /\ outgoing_request' = None
             /\ Len(ws_out') = 1
             /\ ws_out'[1].type = "connectionFailed"
             /\ ws_out'[1].device_id = connect_task[a].target ]_vars

\* C31: once cancelConnection has signalled a connect task that is still in
\* its TCP connect stage, no step of that task writes ConnectRequest to the
\* peer.
CancelBeforeSendAborts ==
    [][ \A a \in Outbound :
          ( /\ connect_task[a].pc = "connect"
            /\ connect_task[a].cancel = "sent" )
          => ~ connect_task'[a].request_sent ]_vars

\* C32: when a handshake task reads ConnectRequest from an address that no
\* peer-table entry has, the step answers ConnectResponse{success: false}
\* and drops the stream; pending_connections and latest_connection_request
\* are left as they were and nothing is broadcast.
UnknownSource(c) ==
    \A id \in DOMAIN discovered_devices :
        discovered_devices[id].device.ip # tcp_in[c].ip

UnknownSourceRefused ==
    [][ \A c \in Inbound :
          ( /\ tcp_in[c].pc = "recv"
            /\ UnknownSource(c)
            /\ tcp_in'[c].first = "ConnectRequest" )
          => /\ tcp_in'[c].responses = << FALSE >>
             /\ tcp_in'[c].stream = "closed"
             /\ tcp_in'[c].pc = "done"
             /\ pending_connections' = pending_connections
             /\ latest_connection_request' = latest_connection_request
             /\ ws_out' = << >> ]_vars

\* An unknown address was refused while the request of a known peer is
\* pending and announced.
UnknownRefusedBesidePending ==
    \E c \in Inbound, b \in Inbound :
        /\ c # b
        /\ tcp_in[c].first = "ConnectRequest"
        /\ tcp_in[c].device = None
        /\ tcp_in[c].responses = << FALSE >>
        /\ tcp_in[c].stream = "closed"
        /\ UnknownSource(c)
        /\ IsPending(b)
        /\ IsSome(latest_connection_request)

\* C33: while the stop flag of an installed hook is unset, its callback
\* blocks every event (pointer moves, zero-delta moves included, keys,
\* buttons, wheel) except the press of Q while Control and Alt are down,
\* which it passes through.
CompletesExitShortcut(i, e) ==
    /\ e.type = "KeyPress"
    /\ e.key = "KeyQ"
    /\ hook[i].ctrl_pressed
    /\ hook[i].alt_pressed

ActiveHookBlocksAll ==
    \A i \in Captures, e \in HookEvents :
        ( hook[i].installed /\ ~ should_stop[i] )
        => ( Verdict(i, e) = IF CompletesExitShortcut(i, e)
                             THEN "pass" ELSE "block" )

\* An active hook has seen Control and Alt go down: the next Q is the exit.
ActiveHookArmed ==
    \E i \in Captures :
        /\ hook[i].installed
        /\ ~ should_stop[i]
        /\ hook[i].ctrl_pressed
        /\ hook[i].alt_pressed
        /\ is_capturing

\* C34: while a session exists, handling a captured keydown or keyup appends
\* exactly one KeyPress to the session's outbound channel, with state TRUE
\* for keydown and FALSE for keyup; the modifier keys are no exception.
CapturedKey ==
    /\ IsSome(input_rx)
    /\ capture_queue[Unwrap(input_rx)] # << >>
    /\ Head(capture_queue[Unwrap(input_rx)]).type = "InputEvent"
    /\ Head(capture_queue[Unwrap(input_rx)]).event.event_type
          \in {"keydown", "keyup"}

EveryKeyForwarded ==
    [][ ( CapturedKey /\ CapturedInput )
        => \A s \in Registered(active_connections) :
             session[s].writer = "run"
             => /\ Len(session'[s].queue) = Len(session[s].queue) + 1
                /\ session'[s].queue[Len(session'[s].queue)].type = "KeyPress"
                /\ session'[s].queue[Len(session'[s].queue)].state =
                     ( Head(capture_queue[Unwrap(input_rx)]).event.event_type
                         = "keydown" ) ]_vars

\* C35: two runs of the discovery handler over the same datagrams, taken in
\* different orders, end with the same entries (id, name, ip) in the peer
\* table, also when one id is announced from two source addresses.
Entries(table) == { table[id].device : id \in DOMAIN table }

ReorderingSameTable ==
    ( datagrams.todo[1] = << >> /\ datagrams.todo[2] = << >> )
    => Entries(datagrams.table[1]) = Entries(datagrams.table[2])

\* C36: when a connect task ends (cancel branch, failure or timeout) while
\* outgoing_request records the request of another, later task, the step
\* leaves that record as it is.
OwnRecordOnly ==
    [][ \A a \in Attempts :
          ( /\ IsSome(outgoing_request)
            /\ Unwrap(outgoing_request).cancel_tx # a
            /\ connect_task[a].pc \in {"connect", "select"}
            /\ connect_task'[a].pc = "done"
            /\ connect_task'[a].outcome \in {"failed", "cancelled"} )
          => outgoing_request' = outgoing_request ]_vars

\* C37: the acceptor installs a session for an inbound connection only
\* while the initiator still holds its end: no step turns a connection that
\* the peer has already closed (cancelled or timed out) into a session.
SessionsAgree ==
    [][ \A c \in Inbound :
          ( /\ tcp_in[c].stream # "session"
            /\ tcp_in'[c].stream = "session" )
          => ~ tcp_in[c].peer_closed ]_vars

\* C38: once the UI's disconnect has taken a session out of
\* active_connections, no frame of that session is replayed and echoed as
\* RemoteInput.
NoReplayAfterDisconnect ==
    [][ \A c \in Inbound, m \in PeerFrames :
          ( /\ InSession(c) \in DOMAIN session
            /\ InSession(c) \notin Registered(active_connections)
            /\ Echo(m) # << >> )
          => ~ AcceptorRecv(c, m) ]_vars

\* C39: whenever latest_connection_request holds a device, a request of
\* that device is in pending_connections.
LatestIsPending ==
    IsSome(latest_connection_request)
    => \E addr \in DOMAIN pending_connections :
          pending_connections[addr].device.id =
             Unwrap(latest_connection_request).id

\* C40: no set of tasks waits forever on the shared mutexes: there is never
\* a set of tasks each of which awaits a mutex whose guard a task of the set
\* holds.
Blocked(t) ==
    /\ locks[t].prog # << >>
    /\ Head(locks[t].prog).op = "lock"
    /\ Head(locks[t].prog).m \in HeldBy(Tasks)

DeadlockFree ==
    \A W \in SUBSET Tasks :
        W # {} => \E t \in W : ~ ( /\ Blocked(t)
                                  /\ Head(locks[t].prog).m \in HeldBy(W) )

\* The main loop, holding active_connections in its disconnect handler,
\* awaits pending_connections while the handshake task holds it.
NestedOrdersMeet ==
    /\ "pending_connections" \in locks["handshake"].held
    /\ "active_connections" \in locks["coordinator"].held
    /\ Blocked("coordinator")
    /\ Head(locks["coordinator"].prog).m = "pending_connections"

====
